---- MODULE Spec2Model ----
(***************************************************************************)
(* Model of the selective project analyzer: the orchestrator               *)
(* SelectiveCymbiotikaProjectAnalyzer.create_selective_analysis            *)
(* (src/src/main.py) together with the collaborators it drives, AIClient   *)
(* (src/src/utils/ai_client.py), the six analyzers (src/src/analyzers) and *)
(* NotionClient (src/src/utils/notion_client.py).                          *)
(*                                                                         *)
(* The run is one coroutine; pc is its position between two awaits.  The   *)
(* hosted services are the environment: every request to them either       *)
(* answers or raises, chosen nondeterministically by the action that       *)
(* issues it.                                                              *)
(***************************************************************************)
EXTENDS Integers, Sequences, FiniteSets, TLC

VARIABLES
    pc,                 \* position of create_selective_analysis
    properties,         \* 'Analysis Types' property seen by the first retrieve
    selected_types,     \* main.py:134
    project_name,       \* main.py:145
    analysis_results,   \* main.py:152
    idx,                \* which of the six "if ... in selected_types" blocks is next
    analysis_content,   \* market_analysis, competitive_analysis, ... (main.py:158)
    recommendation,     \* main.py:284/290
    result,             \* value returned by create_selective_analysis
    exc,                \* exception travelling to the handler at main.py:324
    pageStatus,         \* 'Analysis Status' select of the project page
    pageRecommendation, \* 'AI Recommendation' rich text of the project page
    childPages,         \* report pages created under the project page
    log,                \* error records written through logger.error
    calls,              \* requests issued to the hosted services, in order
    exit_code,          \* what main returned (main.py:83-90), empty before it returns
    fmt_pc,             \* where the text function that was applied is, if any
    fmt_type,           \* the analysis type it was applied for
    fmt_content,        \* the text it was given, a sequence of characters
    fmt_line,           \* the line the loop of the line parser or of the risk extraction is at
    fmt_risk,           \* current_risk of the risk extraction (notion_client.py:571)
    fmt_out             \* what it returned (a text, blocks, risks), or that it raised

\* the variables of one run of create_selective_analysis
run_vars == <<pc, properties, selected_types, project_name, analysis_results, idx,
              analysis_content, recommendation, result, exc, pageStatus,
              pageRecommendation, childPages, log, calls, exit_code>>

\* the variables of one application of a text function
fmt_vars == <<fmt_pc, fmt_type, fmt_content, fmt_line, fmt_risk, fmt_out>>

vars == <<run_vars, fmt_vars>>

\* no text function has been applied
NoOutput == [raised |-> FALSE, value |-> <<>>, blocks |-> <<>>, risks |-> <<>>]
FmtIdle ==
    /\ fmt_pc = "idle"
    /\ fmt_type = ""
    /\ fmt_content = <<>>
    /\ fmt_line = 0
    /\ fmt_risk = <<>>
    /\ fmt_out = NoOutput

----------------------------------------------------------------------------
(* Bounds of the explored inputs *)

\* longest multi-select list stored on the page
MaxSel == 2

----------------------------------------------------------------------------
(* Fixed data of the program *)

\* the six blocks as they would be with the Solution block ahead of the Market block
TypeOrder_solution_first == <<
    [label |-> "Solution Recommendations", key |-> "solution",
     report |-> "Solution Recommendations",
     fail |-> "Solution recommendations analysis failed"],
    [label |-> "Competitive Analysis",     key |-> "competitor",
     report |-> "Competitive Analysis",    fail |-> "Competitive analysis failed"],
    [label |-> "Risk Analysis",            key |-> "risk",
     report |-> "Risk Assessment",         fail |-> "Risk analysis failed"],
    [label |-> "Technical Feasibility",    key |-> "technical",
     report |-> "Technical Feasibility",   fail |-> "Technical analysis failed"],
    [label |-> "Financial Overview",       key |-> "financial",
     report |-> "Financial Overview",      fail |-> "Financial analysis failed"],
    [label |-> "Market Analysis",          key |-> "market",
     report |-> "Market Analysis",         fail |-> "Market analysis failed"] >>

\* the six blocks as they would be if the Competitive block had been copied
\* from the Market block without renaming the analyzer and the report
TypeOrder_market_twice == <<
    [label |-> "Market Analysis",          key |-> "market",
     report |-> "Market Analysis",         fail |-> "Market analysis failed"],
    [label |-> "Competitive Analysis",     key |-> "market",
     report |-> "Market Analysis",         fail |-> "Competitive analysis failed"],
    [label |-> "Risk Analysis",            key |-> "risk",
     report |-> "Risk Assessment",         fail |-> "Risk analysis failed"],
    [label |-> "Technical Feasibility",    key |-> "technical",
     report |-> "Technical Feasibility",   fail |-> "Technical analysis failed"],
    [label |-> "Financial Overview",       key |-> "financial",
     report |-> "Financial Overview",      fail |-> "Financial analysis failed"],
    [label |-> "Solution Recommendations", key |-> "solution",
     report |-> "Solution Recommendations",
     fail |-> "Solution recommendations analysis failed"] >>

\* the six blocks of create_selective_analysis, in source order
TypeOrder == <<
    [label |-> "Market Analysis",          key |-> "market",
     report |-> "Market Analysis",         fail |-> "Market analysis failed"],
    [label |-> "Competitive Analysis",     key |-> "competitor",
     report |-> "Competitive Analysis",    fail |-> "Competitive analysis failed"],
    [label |-> "Risk Analysis",            key |-> "risk",
     report |-> "Risk Assessment",         fail |-> "Risk analysis failed"],
    [label |-> "Technical Feasibility",    key |-> "technical",
     report |-> "Technical Feasibility",   fail |-> "Technical analysis failed"],
    [label |-> "Financial Overview",       key |-> "financial",
     report |-> "Financial Overview",      fail |-> "Financial analysis failed"],
    [label |-> "Solution Recommendations", key |-> "solution",
     report |-> "Solution Recommendations",
     fail |-> "Solution recommendations analysis failed"] >>

NumTypes == Len(TypeOrder)

\* the list returned when nothing is selected
AllAnalysisTypes ==
    <<"Market Analysis", "Competitive Analysis", "Risk Analysis",
      "Technical Feasibility", "Financial Overview", "Solution Recommendations">>

\* option names a page can carry: the six known labels and one unknown name
OptionNames == {TypeOrder[i].label : i \in 1..NumTypes} \cup {"Custom Analysis"}

SeqsUpTo(S, n) == UNION {[1..k -> S] : k \in 0..n}

\* shapes of page['properties']['Analysis Types'] a retrieve can return
PageProperties ==
    {[type |-> "absent", multi_select |-> <<>>],
     [type |-> "select", multi_select |-> <<>>]}
    \cup {[type |-> "multi_select", multi_select |-> s] : s \in SeqsUpTo(OptionNames, MaxSel)}

NotRetrieved == [type |-> "not retrieved", multi_select |-> <<>>]

----------------------------------------------------------------------------
(* Python strings, as sequences of one-character strings *)

\* the smaller of two numbers
Min2(a, b) == IF a <= b THEN a ELSE b

\* characters removed by str.strip()
Whitespace == {" ", "\t", "\r", "\n"}

\* characters for which str.isdigit() holds
Digits == {"0", "1", "2", "3", "4", "5", "6", "7", "8", "9"}

\* str.lower() on one character
UpperToLower ==
    [c \in {"A", "B", "C", "D", "E", "F", "G", "H", "I", "J", "K", "L", "M",
            "N", "O", "P", "Q", "R", "S", "T", "U", "V", "W", "X", "Y", "Z"} |->
        CASE c = "A" -> "a" [] c = "B" -> "b" [] c = "C" -> "c" [] c = "D" -> "d"
          [] c = "E" -> "e" [] c = "F" -> "f" [] c = "G" -> "g" [] c = "H" -> "h"
          [] c = "I" -> "i" [] c = "J" -> "j" [] c = "K" -> "k" [] c = "L" -> "l"
          [] c = "M" -> "m" [] c = "N" -> "n" [] c = "O" -> "o" [] c = "P" -> "p"
          [] c = "Q" -> "q" [] c = "R" -> "r" [] c = "S" -> "s" [] c = "T" -> "t"
          [] c = "U" -> "u" [] c = "V" -> "v" [] c = "W" -> "w" [] c = "X" -> "x"
          [] c = "Y" -> "y" [] c = "Z" -> "z"]

\* str.lower()
lower(s) ==
    [i \in 1..Len(s) |-> IF s[i] \in DOMAIN UpperToLower THEN UpperToLower[s[i]] ELSE s[i]]

\* str.strip()
strip(s) ==
    LET keep == {i \in 1..Len(s) : s[i] \notin Whitespace}
    IN  IF keep = {} THEN <<>>
        ELSE LET first == CHOOSE i \in keep : \A j \in keep : i <= j
                 last  == CHOOSE i \in keep : \A j \in keep : i >= j
             IN  SubSeq(s, first, last)

\* str.startswith(p) and str.endswith(p)
startswith(s, p) == Len(s) >= Len(p) /\ SubSeq(s, 1, Len(p)) = p
endswith(s, p)   == Len(s) >= Len(p) /\ SubSeq(s, Len(s) - Len(p) + 1, Len(s)) = p

\* s[n:]
slice_from(s, n) == SubSeq(s, n + 1, Len(s))

\* s[:n]
slice_to(s, n) == SubSeq(s, 1, Min2(n, Len(s)))

\* k in s
contains(s, k) ==
    \E i \in 1..(Len(s) - Len(k) + 1) : \A j \in 1..Len(k) : s[i + j - 1] = k[j]

\* any(k in s for k in keywords)
contains_any(s, keywords) == \E k \in keywords : contains(s, k)

\* str.replace(old, ""): the occurrences of old are removed from left to right
RECURSIVE remove_all(_, _)
remove_all(s, old) ==
    IF Len(s) < Len(old) THEN s
    ELSE IF SubSeq(s, 1, Len(old)) = old
         THEN remove_all(slice_from(s, Len(old)), old)
         ELSE <<s[1]>> \o remove_all(Tail(s), old)

\* str.split(sep, 1) for a one-character sep: one part without sep, else two
split_once(s, sep) ==
    LET at == {i \in 1..Len(s) : s[i] = sep}
    IN  IF at = {} THEN <<s>>
        ELSE LET first == CHOOSE i \in at : \A j \in at : i <= j
             IN  <<SubSeq(s, 1, first - 1), SubSeq(s, first + 1, Len(s))>>

\* str.split('\n')
RECURSIVE split_lines(_)
split_lines(s) ==
    LET parts == split_once(s, "\n")
    IN  IF Len(parts) = 1 THEN <<s>>
        ELSE <<parts[1]>> \o split_lines(parts[2])

\* the concatenation of a sequence of strings
RECURSIVE concat(_)
concat(ss) == IF ss = <<>> THEN <<>> ELSE Head(ss) \o concat(Tail(ss))

\* every text made of at most n pieces of a set of pieces
TextsOf(pieces, n) == {concat(ts) : ts \in SeqsUpTo(pieces, n)}

----------------------------------------------------------------------------
(* Texts and collaborator outcomes *)

\* texts, by what later code can tell apart; a text whose inside no code
\* looks at is written as a sequence of one element
AIText          == <<"ai response">>
SentinelText    == <<"Analysis failed: error">>
ReportFailText  == <<"Failed to create report: error">>
PageTitle       == <<"page title">>
FallbackName    == <<"Project page_id">>
InnerFallback   == <<"Analysis complete for project. N comprehensive reports created as child pages.">>
OuterFallback   == <<"Analysis complete. N detailed reports created as child pages.">>
NoText          == <<>>

Range(s) == {s[i] : i \in 1..Len(s)}

\* outcomes of one chat-completion request: an answer with content, or an exception
Reply(ok, content) == [ok |-> ok, content |-> content]
Raises == Reply(FALSE, NoText)

\* outcomes of an analyzer's request
AnalysisReplies == {Reply(TRUE, AIText), Raises}

\* outcomes of the executive-summary request
ExecutiveReplies ==
    {Reply(TRUE, t) : t \in {<<"7">>, <<"1", "5">>, <<"banana">>}} \cup {Raises}

----------------------------------------------------------------------------
(* AIClient *)

\* AIClient.generate_response as it would be if a failed request were
\* raised to the caller
generate_response_reraises(reply) ==
    IF reply.ok
    THEN [raised |-> FALSE, value |-> strip(reply.content), logged |-> {}]
    ELSE [raised |-> TRUE, value |-> NoText, logged |-> {"AI generation failed"}]

\* AIClient.generate_response: the whole body is one try block; a request
\* that raises (or an answer without content) ends in the except branch,
\* which logs and returns the sentinel string.
generate_response(reply) ==
    IF reply.ok
    THEN [raised |-> FALSE, value |-> strip(reply.content), logged |-> {}]
    ELSE [raised |-> FALSE, value |-> SentinelText,
          logged |-> {"AI generation failed"}]

\* MarketAnalyzer.analyze and its five siblings: build the prompt, await
\* generate_response once, return its result.
analyze(key, reply) == generate_response(reply)

----------------------------------------------------------------------------
(* NotionClient *)

\* NotionClient.get_page_data: the 'Analysis Types' entry of the returned dict
extract_analysis_types(prop) ==
    IF prop.type = "absent" THEN <<>>
    ELSE IF prop.type = "multi_select" THEN prop.multi_select
    ELSE <<>>

\* get_page_data as it would be if its except branch logged and re-raised
get_page_data_reraises(ok, prop) ==
    IF ok
    THEN [raised |-> FALSE,
          data |-> [name |-> PageTitle,
                    types |-> [is_list |-> TRUE, items |-> extract_analysis_types(prop)]],
          logged |-> {}]
    ELSE [raised |-> TRUE,
          data |-> [name |-> NoText, types |-> [is_list |-> TRUE, items |-> <<>>]],
          logged |-> {"Failed to get page data"}]

\* NotionClient.get_page_data: never raises; a failed retrieve gives the
\* fallback dict with an empty list of analysis types.
get_page_data(ok, prop) ==
    IF ok
    THEN [raised |-> FALSE,
          data |-> [name |-> PageTitle,
                    types |-> [is_list |-> TRUE, items |-> extract_analysis_types(prop)]],
          logged |-> {}]
    ELSE [raised |-> FALSE,
          data |-> [name |-> FallbackName,
                    types |-> [is_list |-> TRUE, items |-> <<>>]],
          logged |-> {"Failed to get page data"}]

\* update_page_status as it would be without the raise of its except branch
update_page_status_swallows(status, ok) ==
    IF ok
    THEN [raised |-> FALSE, logged |-> {}]
    ELSE [raised |-> FALSE, logged |-> {"Failed to update Analysis Status"}]

\* NotionClient.update_page_status: logs and re-raises a failed update
update_page_status(status, ok) ==
    IF ok
    THEN [raised |-> FALSE, logged |-> {}]
    ELSE [raised |-> TRUE, logged |-> {"Failed to update Analysis Status"}]

\* NotionClient.update_analysis_completion: logs a failed update, never raises
update_analysis_completion(ok) ==
    IF ok
    THEN [raised |-> FALSE, logged |-> {}]
    ELSE [raised |-> FALSE, logged |-> {"Failed to update completion data"}]

\* create_beautiful_analysis_report as it would be if its except branch re-raised
create_beautiful_analysis_report_reraises(analysis_type, ok) ==
    IF ok
    THEN [raised |-> FALSE, value |-> "page id", created |-> TRUE, logged |-> {}]
    ELSE [raised |-> TRUE, value |-> NoText, created |-> FALSE,
          logged |-> {"Failed to create beautiful report"}]

\* NotionClient.create_beautiful_analysis_report: the whole body (building the
\* blocks and pages.create) is one try block; on any exception it logs and
\* returns a "Failed to create report: ..." string instead of a page id.
create_beautiful_analysis_report(analysis_type, ok) ==
    IF ok
    THEN [raised |-> FALSE, value |-> "page id", created |-> TRUE, logged |-> {}]
    ELSE [raised |-> FALSE, value |-> ReportFailText, created |-> FALSE,
          logged |-> {"Failed to create beautiful report"}]

----------------------------------------------------------------------------
(* SelectiveCymbiotikaProjectAnalyzer *)

\* get_selected_analysis_types as it would be without the "if not selected" default
get_selected_analysis_types_no_default(r) ==
    IF r.raised
    THEN [value |-> AllAnalysisTypes, logged |-> {"Error reading analysis types"}]
    ELSE [value |-> IF r.data.types.is_list THEN r.data.types.items ELSE <<>>,
          logged |-> {}]

\* get_selected_analysis_types, given the outcome of its get_page_data call
get_selected_analysis_types(r) ==
    IF r.raised
    THEN [value |-> AllAnalysisTypes, logged |-> {"Error reading analysis types"}]
    ELSE LET selected == IF r.data.types.is_list THEN r.data.types.items ELSE <<>>
         IN  IF selected = <<>>
             THEN [value |-> AllAnalysisTypes, logged |-> {}]
             ELSE [value |-> selected, logged |-> {}]

\* _generate_executive_recommendation as it would be if it read the response
\* as a score clamped to 1..10 with a default for non-numeric text
generate_executive_recommendation_clamps(reply) ==
    LET r == generate_response(reply)
    IN  [raised |-> FALSE,
         value |-> IF r.value = <<"7">> THEN <<"7">>
                   ELSE IF r.value = <<"1", "5">> THEN <<"1", "0">>
                   ELSE <<"5">>,
         logged |-> r.logged]

\* _generate_executive_recommendation: one generate_response call inside a
\* try block whose except branch returns the inner fallback sentence.
generate_executive_recommendation(reply) ==
    LET r == generate_response(reply)
    IN  IF r.raised
        THEN [raised |-> FALSE, value |-> InnerFallback,
              logged |-> r.logged \cup {"Executive recommendation error"}]
        ELSE [raised |-> FALSE, value |-> r.value, logged |-> r.logged]

NoResult ==
    [project_name |-> NoText, selected_types |-> <<>>, analysis_results |-> <<>>,
     total_reports |-> 0, status |-> "none"]

\* the returned dict as it would be if both returns carried 'Complete'
run_result_always_complete(status) ==
    [project_name |-> project_name,
     selected_types |-> selected_types,
     analysis_results |-> analysis_results,
     total_reports |-> Len(analysis_results),
     status |-> "Complete"]

\* the dict returned at main.py:273 and main.py:316
run_result(status) ==
    [project_name |-> project_name,
     selected_types |-> selected_types,
     analysis_results |-> analysis_results,
     total_reports |-> Len(analysis_results),
     status |-> status]

\* one entry of the calls history
Call(op, arg, ok) == [op |-> op, arg |-> arg, ok |-> ok, content |-> NoText]
AICall(arg, reply) == [op |-> "generate", arg |-> arg, ok |-> reply.ok,
                       content |-> reply.content]

\* the position after block i as it would be if the last block did not fall
\* through to the check of analysis_results
AfterType_never_leaves(i) == "type"

\* position after the block of type i
AfterType(i) == IF i = NumTypes THEN "check" ELSE "type"

Init ==
    /\ pc = "read_types"
    /\ properties = NotRetrieved
    /\ selected_types = <<>>
    /\ project_name = NoText
    /\ analysis_results = <<>>
    /\ idx = 1
    /\ analysis_content = NoText
    /\ recommendation = NoText
    /\ result = NoResult
    /\ exc = "none"
    /\ pageStatus = "Not Started"
    /\ pageRecommendation = NoText
    /\ childPages = <<>>
    /\ log = {}
    /\ calls = <<>>
    /\ exit_code = <<>>
    /\ FmtIdle

\* main.py:134 - selected_types = await self.get_selected_analysis_types(page_id)
ReadSelectedTypes ==
    /\ pc = "read_types"
    /\ \E ok \in BOOLEAN :
       \E prop \in IF ok THEN PageProperties ELSE {NotRetrieved} :
          LET r == get_page_data(ok, prop)
              s == get_selected_analysis_types(r)
          IN  /\ properties' = prop
              /\ selected_types' = s.value
              /\ log' = log \cup r.logged \cup s.logged
              /\ calls' = Append(calls, Call("retrieve", "page", ok))
    /\ pc' = "set_analyzing"
    /\ UNCHANGED <<project_name, analysis_results, idx, analysis_content,
                   recommendation, result, exc, pageStatus, pageRecommendation,
                   childPages>>
    /\ UNCHANGED <<exit_code, fmt_vars>>

\* main.py:139 - await self.notion_client.update_page_status(page_id, "Analyzing")
SetAnalyzing ==
    /\ pc = "set_analyzing"
    /\ \E ok \in BOOLEAN :
          LET r == update_page_status("Analyzing", ok)
          IN  /\ pageStatus' = IF ok THEN "Analyzing" ELSE pageStatus
              /\ log' = log \cup r.logged
              /\ calls' = Append(calls, Call("update_status", "Analyzing", ok))
              /\ exc' = IF r.raised THEN "update_page_status Analyzing" ELSE exc
              /\ pc' = IF r.raised THEN "handler" ELSE "fetch_project"
    /\ UNCHANGED <<properties, selected_types, project_name, analysis_results, idx,
                   analysis_content, recommendation, result, pageRecommendation,
                   childPages>>
    /\ UNCHANGED <<exit_code, fmt_vars>>

\* main.py:144-152 - project_data = await self.notion_client.get_page_data(page_id)
FetchProject ==
    /\ pc = "fetch_project"
    /\ \E ok \in BOOLEAN :
          LET r == get_page_data(ok, properties)
          IN  /\ log' = log \cup r.logged
              /\ calls' = Append(calls, Call("retrieve", "page", ok))
              /\ IF r.raised
                 THEN /\ exc' = "get_page_data"
                      /\ pc' = "handler"
                      /\ UNCHANGED <<project_name, analysis_results, idx>>
                 ELSE /\ project_name' = r.data.name
                      /\ analysis_results' = <<>>
                      /\ idx' = 1
                      /\ pc' = "type"
                      /\ exc' = exc
    /\ UNCHANGED <<properties, selected_types, analysis_content, recommendation,
                   result, pageStatus, pageRecommendation, childPages>>
    /\ UNCHANGED <<exit_code, fmt_vars>>

\* main.py:155,174,193,212,231,250 - the label is not in selected_types
SkipType(i) ==
    /\ pc = "type"
    /\ idx = i
    /\ TypeOrder[i].label \notin Range(selected_types)
    /\ idx' = i + 1
    /\ pc' = AfterType(i)
    /\ UNCHANGED <<properties, selected_types, project_name, analysis_results,
                   analysis_content, recommendation, result, exc, pageStatus,
                   pageRecommendation, childPages, log, calls>>
    /\ UNCHANGED <<exit_code, fmt_vars>>

\* main.py:158,177,196,215,234,253 - await self.analyzers[key].analyze(...)
Generate(i) ==
    /\ pc = "type"
    /\ idx = i
    /\ TypeOrder[i].label \in Range(selected_types)
    /\ \E reply \in AnalysisReplies :
          LET r == analyze(TypeOrder[i].key, reply)
          IN  /\ calls' = Append(calls, AICall(TypeOrder[i].key, reply))
              /\ IF r.raised
                 THEN /\ log' = log \cup r.logged \cup {TypeOrder[i].fail}
                      /\ idx' = i + 1
                      /\ pc' = AfterType(i)
                      /\ UNCHANGED analysis_content
                 ELSE /\ log' = log \cup r.logged
                      /\ analysis_content' = r.value
                      /\ pc' = "publish"
                      /\ UNCHANGED idx
    /\ UNCHANGED <<properties, selected_types, project_name, analysis_results,
                   recommendation, result, exc, pageStatus, pageRecommendation,
                   childPages>>
    /\ UNCHANGED <<exit_code, fmt_vars>>

\* main.py:160-171 (and the five sibling blocks) -
\* await self.notion_client.create_beautiful_analysis_report(...), then
\* analysis_results.append(...)
Publish(i) ==
    /\ pc = "publish"
    /\ idx = i
    /\ \E ok \in BOOLEAN :
          LET r == create_beautiful_analysis_report(TypeOrder[i].report, ok)
          IN  /\ calls' = Append(calls, Call("create", TypeOrder[i].report, ok))
              /\ childPages' = IF r.created
                               THEN Append(childPages, TypeOrder[i].report)
                               ELSE childPages
              /\ IF r.raised
                 THEN /\ log' = log \cup r.logged \cup {TypeOrder[i].fail}
                      /\ UNCHANGED analysis_results
                 ELSE /\ log' = log \cup r.logged
                      /\ analysis_results' = Append(analysis_results, TypeOrder[i].report)
    /\ idx' = i + 1
    /\ pc' = AfterType(i)
    /\ UNCHANGED <<properties, selected_types, project_name, analysis_content,
                   recommendation, result, exc, pageStatus, pageRecommendation>>
    /\ UNCHANGED <<exit_code, fmt_vars>>

\* main.py:269-279 - no analysis was recorded
NoAnalyses ==
    /\ pc = "check"
    /\ analysis_results = <<>>
    /\ \E ok \in BOOLEAN :
          LET r == update_page_status("Error", ok)
          IN  /\ pageStatus' = IF ok THEN "Error" ELSE pageStatus
              /\ log' = log \cup {"No analyses completed successfully"} \cup r.logged
              /\ calls' = Append(calls, Call("update_status", "Error", ok))
              /\ IF r.raised
                 THEN /\ exc' = "update_page_status Error"
                      /\ pc' = "handler"
                      /\ UNCHANGED result
                 ELSE /\ result' = run_result("Error")
                      /\ pc' = "returned"
                      /\ UNCHANGED exc
    /\ UNCHANGED <<properties, selected_types, project_name, analysis_results, idx,
                   analysis_content, recommendation, pageRecommendation, childPages>>
    /\ UNCHANGED <<exit_code, fmt_vars>>

\* main.py:281-290 - recommendation = await self._generate_executive_recommendation(...)
ExecutiveRecommendation ==
    /\ pc = "check"
    /\ analysis_results # <<>>
    /\ \E reply \in ExecutiveReplies :
          LET r == generate_executive_recommendation(reply)
          IN  /\ calls' = Append(calls, AICall("executive", reply))
              /\ IF r.raised
                 THEN /\ log' = log \cup r.logged \cup {"AI Recommendation failed"}
                      /\ recommendation' = OuterFallback
                 ELSE /\ log' = log \cup r.logged
                      /\ recommendation' = r.value
    /\ pc' = "completion"
    /\ UNCHANGED <<properties, selected_types, project_name, analysis_results, idx,
                   analysis_content, result, exc, pageStatus, pageRecommendation,
                   childPages>>
    /\ UNCHANGED <<exit_code, fmt_vars>>

\* main.py:292-298 - await self.notion_client.update_analysis_completion(...)
\* (the stored text is str(ai_recommendation)[:2000]; every text of the model is
\* shorter than that limit, so the page receives the recommendation whole)
UpdateCompletion ==
    /\ pc = "completion"
    /\ \E ok \in BOOLEAN :
          LET r == update_analysis_completion(ok)
          IN  /\ calls' = Append(calls, Call("update_completion", "recommendation", ok))
              /\ pageRecommendation' = IF ok THEN recommendation ELSE pageRecommendation
              /\ log' = IF r.raised
                        THEN log \cup r.logged \cup {"Failed to update analysis completion"}
                        ELSE log \cup r.logged
    /\ pc' = "set_complete"
    /\ UNCHANGED <<properties, selected_types, project_name, analysis_results, idx,
                   analysis_content, recommendation, result, exc, pageStatus,
                   childPages>>
    /\ UNCHANGED <<exit_code, fmt_vars>>

\* main.py:300-322 - await self.notion_client.update_page_status(page_id, "Complete")
SetComplete ==
    /\ pc = "set_complete"
    /\ \E ok \in BOOLEAN :
          LET r == update_page_status("Complete", ok)
          IN  /\ calls' = Append(calls, Call("update_status", "Complete", ok))
              /\ pageStatus' = IF ok THEN "Complete" ELSE pageStatus
              /\ log' = IF r.raised
                        THEN log \cup r.logged \cup {"Failed to update status to Complete"}
                        ELSE log \cup r.logged
    /\ result' = run_result("Complete")
    /\ pc' = "returned"
    /\ UNCHANGED <<properties, selected_types, project_name, analysis_results, idx,
                   analysis_content, recommendation, exc, pageRecommendation,
                   childPages>>
    /\ UNCHANGED <<exit_code, fmt_vars>>

\* main.py:324-337 - except Exception: try to set the status to Error, re-raise
Handler ==
    /\ pc = "handler"
    /\ \E ok \in BOOLEAN :
          LET r == update_page_status("Error", ok)
          IN  /\ calls' = Append(calls, Call("update_status", "Error", ok))
              /\ pageStatus' = IF ok THEN "Error" ELSE pageStatus
              /\ log' = IF r.raised
                        THEN log \cup {"Selective analysis failed"} \cup r.logged
                                 \cup {"Failed to update status to Error"}
                        ELSE log \cup {"Selective analysis failed"} \cup r.logged
    /\ pc' = "raised"
    /\ UNCHANGED <<properties, selected_types, project_name, analysis_results, idx,
                   analysis_content, recommendation, result, exc, pageRecommendation,
                   childPages>>
    /\ UNCHANGED <<exit_code, fmt_vars>>

\* main's return as it would be if it looked at the returned status
MainReturn_exit_by_status ==
    /\ pc \in {"returned", "raised"}
    /\ exit_code = <<>>
    /\ IF pc = "raised" \/ result.status = "Error"
       THEN /\ log' = log \cup {"Error"}
            /\ exit_code' = <<1>>
       ELSE /\ log' = log
            /\ exit_code' = <<0>>
    /\ UNCHANGED <<pc, properties, selected_types, project_name, analysis_results,
                   idx, analysis_content, recommendation, result, exc, pageStatus,
                   pageRecommendation, childPages, calls>>
    /\ UNCHANGED fmt_vars

\* main.py:82-90 - asyncio.run(analyzer.create_selective_analysis(page_id))
\* has returned or raised: return 0, or log the exception and return 1
MainReturn ==
    /\ pc \in {"returned", "raised"}
    /\ exit_code = <<>>
    /\ IF pc = "raised"
       THEN /\ log' = log \cup {"Error"}
            /\ exit_code' = <<1>>
       ELSE /\ log' = log
            /\ exit_code' = <<0>>
    /\ UNCHANGED <<pc, properties, selected_types, project_name, analysis_results,
                   idx, analysis_content, recommendation, result, exc, pageStatus,
                   pageRecommendation, childPages, calls>>
    /\ UNCHANGED fmt_vars

Next ==
    \/ ReadSelectedTypes
    \/ SetAnalyzing
    \/ FetchProject
    \/ \E i \in 1..NumTypes : SkipType(i)
    \/ \E i \in 1..NumTypes : Generate(i)
    \/ \E i \in 1..NumTypes : Publish(i)
    \/ NoAnalyses
    \/ ExecutiveRecommendation
    \/ UpdateCompletion
    \/ SetComplete
    \/ Handler
    \/ MainReturn

Spec == Init /\ [][Next]_vars

----------------------------------------------------------------------------
(* Derived views of the history *)

\* arguments of the requests of kind op that were issued / that raised
IssuedArgs(op) ==
    {calls[k].arg : k \in {n \in 1..Len(calls) : calls[n].op = op}}
FailedArgs(op) ==
    {calls[k].arg : k \in {n \in 1..Len(calls) : calls[n].op = op /\ ~calls[n].ok}}

\* the requests of kind op with argument arg, in order
CallsOf(op, arg) == SelectSeq(calls, LAMBDA c : c.op = op /\ c.arg = arg)

\* analyzer keys in the order their requests were issued
GeneratedKeys ==
    LET g == SelectSeq(calls, LAMBDA c : c.op = "generate" /\ c.arg # "executive")
    IN  [k \in 1..Len(g) |-> g[k].arg]

AllKeys == [i \in 1..NumTypes |-> TypeOrder[i].key]

\* the first retrieve of the run raised
FirstFetchFailed == Len(calls) >= 1 /\ ~calls[1].ok

\* the six blocks are behind the run
PastTypes == pc \in {"check", "completion", "set_complete", "returned"}

\* the executive-summary step is behind the run
PastSummary ==
    \/ pc \in {"completion", "set_complete"}
    \/ pc = "returned" /\ result.status = "Complete"

Finished == pc \in {"returned", "raised"}

GenericFallbacks == {InnerFallback, OuterFallback}

TypeOk ==
    /\ pc \in {"read_types", "set_analyzing", "fetch_project", "type", "publish",
               "check", "completion", "set_complete", "handler", "returned", "raised"}
    /\ idx \in 1..(NumTypes + 1)
    /\ Len(analysis_results) <= NumTypes
    /\ exit_code \in {<<>>, <<0>>, <<1>>}

----------------------------------------------------------------------------
(* Failure isolation in the six analysis blocks *)

\* C1: a type whose generator request or report creation raised is logged,
\* is not recorded in analysis_results, and every later selected type is
\* still attempted once the six blocks are behind the run.
C1_FailureIsolatedAndNotRecorded ==
    LET genFailed == FailedArgs("generate")
        pubFailed == FailedArgs("create")
        generated == IssuedArgs("generate")
        recorded  == Range(analysis_results)
        selected  == Range(selected_types)
    IN  \A i \in 1..NumTypes :
            (TypeOrder[i].key \in genFailed \/ TypeOrder[i].report \in pubFailed) =>
                /\ log \cap {"AI generation failed", "Failed to create beautiful report",
                             TypeOrder[i].fail} # {}
                /\ TypeOrder[i].report \notin recorded
                /\ PastTypes =>
                      \A j \in (i+1)..NumTypes :
                          TypeOrder[j].label \in selected => TypeOrder[j].key \in generated

\* C2: when every analyzer request of a finished run raised, no report page
\* exists, a write of the status Error was made, and the executive-summary
\* request was not made or left a generic fallback sentence.
C2_AllGeneratorsFailGivesError ==
    LET genFailed == FailedArgs("generate") \ {"executive"}
        generated == IssuedArgs("generate") \ {"executive"}
    IN  (Finished /\ generated # {} /\ generated = genFailed) =>
            /\ childPages = <<>>
            /\ "Error" \in IssuedArgs("update_status")
            /\ \/ "executive" \notin IssuedArgs("generate")
               \/ recommendation \in GenericFallbacks

\* C3: in a run that returned, total_reports is the number of report pages
\* the document store created.
C3_TotalReportsIsPagesCreated ==
    pc = "returned" => result.total_reports = Len(childPages)

\* C4: when creating the report of a type failed, the failure is logged, it
\* does not reach the handler of the run, no page exists for the type, later
\* selected types are still generated, and the type is in analysis_results,
\* the list handed to the executive-summary step.
C4_PublishFailureKeepsResult ==
    LET pubFailed == FailedArgs("create")
        generated == IssuedArgs("generate")
        recorded  == Range(analysis_results)
        selected  == Range(selected_types)
    IN  \A i \in 1..NumTypes :
            TypeOrder[i].report \in pubFailed =>
                /\ "Failed to create beautiful report" \in log
                /\ exc \in {"none", "update_page_status Analyzing",
                            "update_page_status Error"}
                /\ TypeOrder[i].report \notin Range(childPages)
                /\ TypeOrder[i].report \in recorded
                /\ PastTypes =>
                      \A j \in (i+1)..NumTypes :
                          TypeOrder[j].label \in selected => TypeOrder[j].key \in generated

C4_Witness ==
    /\ pc = "returned"
    /\ "executive" \in IssuedArgs("generate")
    /\ \E i \in 1..NumTypes :
          /\ TypeOrder[i].report \in FailedArgs("create")
          /\ TypeOrder[i].report \in Range(result.analysis_results)
          /\ \E j \in (i+1)..NumTypes : TypeOrder[j].key \in IssuedArgs("generate")

----------------------------------------------------------------------------
(* Failures of the document store outside the six blocks *)

\* C5 as stated: after a failed initial fetch no generator is called and a
\* finished run has raised after a write of the status Error.
C5_FetchFailureAborts ==
    FirstFetchFailed =>
        /\ IssuedArgs("generate") = {}
        /\ Finished => (pc = "raised" /\ "Error" \in IssuedArgs("update_status"))

\* C5 (amended): a failed initial fetch is logged inside get_page_data and
\* does not abort the run: all six types are selected, the run raises only if
\* the write of the status Analyzing failed, and a run that returns has called
\* the six generators in order and returns Complete.
C5_FetchFailureFallsBack ==
    FirstFetchFailed =>
        /\ "Failed to get page data" \in log
        /\ selected_types = AllAnalysisTypes
        /\ pc \in {"handler", "raised"} => "Analyzing" \in FailedArgs("update_status")
        /\ pc = "returned" => (GeneratedKeys = AllKeys /\ result.status = "Complete")

C5_Witness ==
    /\ FirstFetchFailed
    /\ pc = "returned"
    /\ GeneratedKeys = AllKeys

\* C6 as stated: a failed status write is logged and the run neither raises
\* nor is kept from its analyses.
C6_StatusFailureNeverFatal ==
    FailedArgs("update_status") # {} =>
        /\ "Failed to update Analysis Status" \in log
        /\ pc \notin {"handler", "raised"}

\* C6 (amended): every failed status write is logged; only a failed write of
\* Complete is not fatal (the run returns Complete); a failed write of
\* Analyzing sends the run to its handler before any generator is called, a
\* failed write of Error leaves it in the handler or raised, and the run
\* raises for no other reason.
C6_OnlyCompleteFailureIsNotFatal ==
    LET failed == FailedArgs("update_status")
    IN  /\ failed # {} => "Failed to update Analysis Status" \in log
        /\ "Complete" \in failed => (pc = "returned" /\ result.status = "Complete")
        /\ "Analyzing" \in failed =>
              (pc \in {"handler", "raised"} /\ IssuedArgs("generate") = {})
        /\ "Error" \in failed => pc \in {"handler", "raised"}
        /\ pc \in {"handler", "raised"} => failed \cap {"Analyzing", "Error"} # {}

C6_Witness ==
    /\ pc = "raised"
    /\ "Analyzing" \in FailedArgs("update_status")
    /\ IssuedArgs("generate") = {}

\* C7 as stated: a run that returned carries Complete exactly when an analysis
\* was recorded, Error exactly when none was, and the page holds that status.
C7_PageStatusEqualsReturned ==
    pc = "returned" =>
        /\ result.status = "Complete" <=> analysis_results # <<>>
        /\ result.status = "Error" <=> analysis_results = <<>>
        /\ pageStatus = result.status

\* C7 (amended): a run that returned carries Complete exactly when an analysis
\* was recorded and Error exactly when none was; a returned Error is the
\* status on the page; a returned Complete is the status on the page when the
\* write of Complete succeeded, and otherwise the page is left in Analyzing.
C7_ReturnedStatus ==
    pc = "returned" =>
        /\ result.status = "Complete" <=> analysis_results # <<>>
        /\ result.status = "Error" <=> analysis_results = <<>>
        /\ result.status = "Error" => pageStatus = "Error"
        /\ result.status = "Complete" =>
              pageStatus = IF "Complete" \in FailedArgs("update_status")
                           THEN "Analyzing" ELSE "Complete"

C7_Witness ==
    /\ pc = "returned"
    /\ result.status = "Complete"
    /\ pageStatus = "Analyzing"

----------------------------------------------------------------------------
(* Selection of the analysis types *)

\* C8: when the page's selection is an empty list, is absent, is not a
\* multi-select list, or could not be read, all six types are selected and,
\* once the six blocks are behind the run, the six generators were called in
\* the order Market, Competitive, Risk, Technical, Financial, Solution.
C8_EmptySelectionRunsAll ==
    (/\ pc # "read_types"
     /\ \/ properties.type # "multi_select"
        \/ properties.multi_select = <<>>)
    => /\ selected_types = AllAnalysisTypes
       /\ PastTypes => GeneratedKeys = AllKeys

C8_Witness ==
    /\ pc = "returned"
    /\ properties.type = "multi_select"
    /\ properties.multi_select = <<>>
    /\ GeneratedKeys = AllKeys

----------------------------------------------------------------------------
(* The executive-summary step *)

\* C9: when the AI request of the executive summary raised, the failure is
\* logged, the recommendation (and what is stored on the page) is a generic
\* fallback sentence, the run is not aborted and a finished run returned
\* Complete.
C9_SummaryFailureGivesFallback ==
    "executive" \in FailedArgs("generate") =>
        /\ "AI generation failed" \in log
        /\ recommendation \in GenericFallbacks
        /\ pageRecommendation \in GenericFallbacks \cup {NoText}
        /\ pc \notin {"handler", "raised"}
        /\ Finished => result.status = "Complete"

----------------------------------------------------------------------------
(* NotionClient._parse_content_to_blocks *)

\* one block of a report; rows is used by tables only
Block(type, text) == [type |-> type, text |-> text, rows |-> <<>>]

\* a text function returned blocks / raised
Returned(blocks) == [NoOutput EXCEPT !.blocks = blocks]
Raised == [NoOutput EXCEPT !.raised = TRUE]

\* the emoji put in front of a heading, in the order of the if/elif chain
HeadingIcons == <<
    [icon |-> "<chart up>",
     words |-> {<<"o", "p", "p", "o", "r", "t", "u", "n", "i", "t", "y">>,
                <<"m", "a", "r", "k", "e", "t">>,
                <<"s", "i", "z", "e">>}],
    [icon |-> "<target>",
     words |-> {<<"s", "t", "r", "a", "t", "e", "g", "y">>,
                <<"p", "o", "s", "i", "t", "i", "o", "n">>,
                <<"c", "o", "m", "p", "e", "t", "i", "t", "i", "v", "e">>}],
    [icon |-> "<warning>",
     words |-> {<<"r", "i", "s", "k">>,
                <<"c", "h", "a", "l", "l", "e", "n", "g", "e">>,
                <<"t", "h", "r", "e", "a", "t">>}],
    [icon |-> "<check>",
     words |-> {<<"r", "e", "c", "o", "m", "m", "e", "n", "d">>,
                <<"a", "c", "t", "i", "o", "n">>,
                <<"n", "e", "x", "t">>}],
    [icon |-> "<money>",
     words |-> {<<"f", "i", "n", "a", "n", "c", "i", "a", "l">>,
                <<"r", "e", "v", "e", "n", "u", "e">>,
                <<"c", "o", "s", "t">>}] >>

\* the emoji put in front of a bullet, in the order of the if/elif chain
BulletIcons == <<
    [icon |-> "<chart up>",
     words |-> {<<"i", "n", "c", "r", "e", "a", "s", "e">>,
                <<"g", "r", "o", "w">>,
                <<"o", "p", "p", "o", "r", "t", "u", "n", "i", "t", "y">>,
                <<"p", "o", "s", "i", "t", "i", "v", "e">>,
                <<"s", "t", "r", "o", "n", "g">>}],
    [icon |-> "<chart down>",
     words |-> {<<"d", "e", "c", "r", "e", "a", "s", "e">>,
                <<"r", "e", "d", "u", "c", "e">>,
                <<"r", "i", "s", "k">>,
                <<"n", "e", "g", "a", "t", "i", "v", "e">>,
                <<"c", "h", "a", "l", "l", "e", "n", "g", "e">>}],
    [icon |-> "<bulb>",
     words |-> {<<"r", "e", "c", "o", "m", "m", "e", "n", "d">>,
                <<"s", "h", "o", "u", "l", "d">>,
                <<"a", "c", "t", "i", "o", "n">>,
                <<"i", "m", "p", "l", "e", "m", "e", "n", "t">>}],
    [icon |-> "<target>",
     words |-> {<<"c", "o", "m", "p", "e", "t", "i", "t", "i", "v", "e">>,
                <<"a", "d", "v", "a", "n", "t", "a", "g", "e">>,
                <<"d", "i", "f", "f", "e", "r", "e", "n", "t", "i", "a", "t", "e">>}] >>

CalloutKeywords ==
    {<<"i", "m", "p", "o", "r", "t", "a", "n", "t">>,
     <<"k", "e", "y", " ", "i", "n", "s", "i", "g", "h", "t">>,
     <<"c", "r", "i", "t", "i", "c", "a", "l">>,
     <<"n", "o", "t", "e", ":">>}

\* the families of an icon table with a keyword in text.lower()
matching_families(text, icons) ==
    {i \in 1..Len(icons) : contains_any(lower(text), icons[i].words)}

\* f"{icon} {text}" for the family at position i
prefixed(text, icons, i) == <<icons[i].icon, " ">> \o text

\* the heading text as it would be if the last matching family gave the icon
heading_with_icon_last_match(text) ==
    LET hit == matching_families(text, HeadingIcons)
    IN  IF hit = {} THEN text
        ELSE prefixed(text, HeadingIcons, CHOOSE i \in hit : \A j \in hit : i >= j)

\* notion_client.py:1113-1123 - the first matching family gives the icon
heading_with_icon(text) ==
    LET hit == matching_families(text, HeadingIcons)
    IN  IF hit = {} THEN text
        ELSE prefixed(text, HeadingIcons, CHOOSE i \in hit : \A j \in hit : i <= j)

\* the bullet text as it would be if the second family were tested first
bullet_with_icon_down_first(text) ==
    LET hit == matching_families(text, BulletIcons)
    IN  IF hit = {} THEN text
        ELSE IF 2 \in hit THEN prefixed(text, BulletIcons, 2)
        ELSE prefixed(text, BulletIcons, CHOOSE i \in hit : \A j \in hit : i <= j)

\* notion_client.py:1152-1160 - the first matching family gives the icon
bullet_with_icon(text) ==
    LET hit == matching_families(text, BulletIcons)
    IN  IF hit = {} THEN text
        ELSE prefixed(text, BulletIcons, CHOOSE i \in hit : \A j \in hit : i <= j)

\* the conditions of the if/elif chain, on a stripped non-empty line
is_heading_2(line) ==
    \/ startswith(line, <<"#", "#", " ">>)
    \/ /\ startswith(line, <<"*", "*">>)
       /\ endswith(line, <<"*", "*">>)
       /\ Len(line) > 10

is_heading_3(line) ==
    \/ startswith(line, <<"#", "#", "#", " ">>)
    \/ /\ line[1] \in Digits
       /\ contains(line, <<".", " ">>)
       /\ contains(line, <<"*", "*">>)

is_bullet(line) ==
    \/ startswith(line, <<"-", " ">>)
    \/ startswith(line, <<"<bullet>", " ">>)

is_callout(line) == contains_any(lower(line), CalloutKeywords)

is_paragraph(line) ==
    /\ Len(line) > 15
    /\ ~startswith(line, <<"*">>)
    /\ ~startswith(line, <<"#">>)
    /\ ~startswith(line, <<"-">>)

\* notion_client.py:1111-1131
heading_2_block(line) ==
    Block("heading_2",
          heading_with_icon(strip(remove_all(remove_all(line, <<"#", "#">>), <<"*", "*">>))))

\* notion_client.py:1135-1146; subheading_text[0] and split('.', 1)[1] raise
\* IndexError on an empty text and on a text without '.'
heading_3_block(line) ==
    LET subheading_text == strip(remove_all(line, <<"#", "#", "#">>))
    IN  IF subheading_text = <<>> THEN Raised
        ELSE IF subheading_text[1] \in Digits
             THEN LET parts == split_once(subheading_text, ".")
                  IN  IF Len(parts) < 2 THEN Raised
                      ELSE Returned(<<Block("heading_3",
                                            remove_all(strip(parts[2]), <<"*", "*">>))>>)
             ELSE Returned(<<Block("heading_3", remove_all(subheading_text, <<"*", "*">>))>>)

\* notion_client.py:1150-1168
bullet_block(line) ==
    Block("bulleted_list_item", bullet_with_icon(strip(slice_from(line, 2))))

\* notion_client.py:1109-1191 - the blocks of one stripped non-empty line
parse_line(line) ==
    IF is_heading_2(line) THEN Returned(<<heading_2_block(line)>>)
    ELSE IF is_heading_3(line) THEN heading_3_block(line)
    ELSE IF is_bullet(line) THEN Returned(<<bullet_block(line)>>)
    ELSE IF is_callout(line) THEN Returned(<<Block("callout", line)>>)
    ELSE IF is_paragraph(line) THEN Returned(<<Block("paragraph", line)>>)
    ELSE Returned(<<>>)

\* notion_client.py:1104-1107 - the loop over the lines; an exception in one
\* line ends the call
RECURSIVE parse_lines(_)
parse_lines(lines) ==
    IF lines = <<>> THEN Returned(<<>>)
    ELSE LET line == strip(Head(lines))
             here == IF line = <<>> THEN Returned(<<>>) ELSE parse_line(line)
         IN  IF here.raised THEN Raised
             ELSE LET rest == parse_lines(Tail(lines))
                  IN  IF rest.raised THEN Raised
                      ELSE Returned(here.blocks \o rest.blocks)

\* NotionClient._parse_content_to_blocks
parse_content_to_blocks(content) == parse_lines(split_lines(content))

----------------------------------------------------------------------------
(* The line parser applied to texts *)

\* the longest text given to the parser, in pieces
MaxParseTokens == 3

\* the pieces the texts are made of: the markers the parser looks for, one
\* keyword of several icon families, a callout keyword and a plain sentence
ParseTokens ==
    {<<"#", "#", " ">>,
     <<"#", "#", "#", " ">>,
     <<"*", "*">>,
     <<"-", " ">>,
     <<"<bullet>", " ">>,
     <<"5">>,
     <<".", " ">>,
     <<"\n">>,
     <<"m", "a", "r", "k", "e", "t">>,
     <<"r", "i", "s", "k">>,
     <<"i", "n", "c", "r", "e", "a", "s", "e">>,
     <<"r", "e", "c", "o", "m", "m", "e", "n", "d">>,
     <<"C", "r", "i", "t", "i", "c", "a", "l">>,
     <<" ", "a", " ", "p", "l", "a", "i", "n", " ", "s", "e", "n", "t", "e", "n", "c", "e">>}

ParseTexts == TextsOf(ParseTokens, MaxParseTokens)

\* content.split('\n')
content_lines == split_lines(fmt_content)

\* _parse_content_to_blocks is called with a text: blocks = []
ParseContent ==
    /\ fmt_pc = "idle"
    /\ \E content \in ParseTexts : fmt_content' = content
    /\ fmt_line' = 1
    /\ fmt_out' = Returned(<<>>)
    /\ fmt_pc' = "loop"
    /\ UNCHANGED <<fmt_type, fmt_risk, run_vars>>

\* one iteration of the loop over the lines: a blank line is skipped, any
\* other line extends blocks by what its branch appends, or raises
ParseLine ==
    /\ fmt_pc = "loop"
    /\ fmt_line <= Len(content_lines)
    /\ LET line == strip(content_lines[fmt_line])
           here == IF line = <<>> THEN Returned(<<>>) ELSE parse_line(line)
       IN  IF here.raised
           THEN /\ fmt_out' = Raised
                /\ fmt_pc' = "raised"
                /\ UNCHANGED fmt_line
           ELSE /\ fmt_out' = Returned(fmt_out.blocks \o here.blocks)
                /\ fmt_line' = fmt_line + 1
                /\ UNCHANGED fmt_pc
    /\ UNCHANGED <<fmt_type, fmt_content, fmt_risk, run_vars>>

\* return blocks
ParseReturn ==
    /\ fmt_pc = "loop"
    /\ fmt_line > Len(content_lines)
    /\ fmt_pc' = "returned"
    /\ UNCHANGED <<fmt_type, fmt_content, fmt_line, fmt_out, fmt_risk, run_vars>>

ParseNext == ParseContent \/ ParseLine \/ ParseReturn

ParseSpec == Init /\ [][ParseNext]_vars

\* the stripped lines the loop has been through, and the one it is at
processed_lines == [i \in 1..(fmt_line - 1) |-> strip(content_lines[i])]
current_line == strip(content_lines[fmt_line])

\* the blocks of one type, in order
blocks_of_type(blocks, type) == SelectSeq(blocks, LAMBDA b : b.type = type)

\* the loop is in an iteration for a line of the text
AtLine == fmt_pc = "loop" /\ fmt_line <= Len(content_lines)

\* the parser has been called
Parsing == fmt_pc \in {"loop", "returned", "raised"}

----------------------------------------------------------------------------
(* Bullets *)

\* C12: the iteration for a line beginning with '- ' (a line that is '- '
\* followed only by whitespace included) appends exactly one BulletItem to
\* the blocks, so the BulletItems are in the order of their lines.
C12_EveryDashLineIsOneBullet ==
    [][(AtLine /\ startswith(content_lines[fmt_line], <<"-", " ">>)) =>
          /\ ~fmt_out'.raised
          /\ Len(fmt_out'.blocks) = Len(fmt_out.blocks) + 1
          /\ SubSeq(fmt_out'.blocks, 1, Len(fmt_out.blocks)) = fmt_out.blocks
          /\ fmt_out'.blocks[Len(fmt_out'.blocks)].type = "bulleted_list_item"]_vars

\* C16: the text of a bullet line (after '- ' or the bullet character) gets
\* the icon of the first family with a keyword in it, in the order up-trend,
\* down-trend, idea, target, and no icon when no family matches; an
\* iteration for a bullet line never raises.
C16_BulletIconFirstMatch ==
    Parsing =>
        LET rule(l) == startswith(l, <<"-", " ">>) \/ startswith(l, <<"<bullet>", " ">>)
            text(l) == strip(slice_from(l, 2))
            with_icon(t) ==
                LET low == lower(t)
                IN  IF \/ contains(low, <<"i", "n", "c", "r", "e", "a", "s", "e">>)
                       \/ contains(low, <<"g", "r", "o", "w">>)
                       \/ contains(low, <<"o", "p", "p", "o", "r", "t", "u", "n", "i", "t", "y">>)
                       \/ contains(low, <<"p", "o", "s", "i", "t", "i", "v", "e">>)
                       \/ contains(low, <<"s", "t", "r", "o", "n", "g">>)
                    THEN <<"<chart up>", " ">> \o t
                    ELSE IF \/ contains(low, <<"d", "e", "c", "r", "e", "a", "s", "e">>)
                            \/ contains(low, <<"r", "e", "d", "u", "c", "e">>)
                            \/ contains(low, <<"r", "i", "s", "k">>)
                            \/ contains(low, <<"n", "e", "g", "a", "t", "i", "v", "e">>)
                            \/ contains(low, <<"c", "h", "a", "l", "l", "e", "n", "g", "e">>)
                    THEN <<"<chart down>", " ">> \o t
                    ELSE IF \/ contains(low, <<"r", "e", "c", "o", "m", "m", "e", "n", "d">>)
                            \/ contains(low, <<"s", "h", "o", "u", "l", "d">>)
                            \/ contains(low, <<"a", "c", "t", "i", "o", "n">>)
                            \/ contains(low, <<"i", "m", "p", "l", "e", "m", "e", "n", "t">>)
                    THEN <<"<bulb>", " ">> \o t
                    ELSE IF \/ contains(low, <<"c", "o", "m", "p", "e", "t", "i", "t", "i", "v", "e">>)
                            \/ contains(low, <<"a", "d", "v", "a", "n", "t", "a", "g", "e">>)
                            \/ contains(low, <<"d", "i", "f", "f", "e", "r", "e", "n", "t", "i", "a", "t", "e">>)
                    THEN <<"<target>", " ">> \o t
                    ELSE t
            bullet_lines == SelectSeq(processed_lines, rule)
        IN  IF fmt_pc = "raised" THEN ~rule(current_line)
            ELSE blocks_of_type(fmt_out.blocks, "bulleted_list_item") =
                    [k \in 1..Len(bullet_lines) |->
                        Block("bulleted_list_item", with_icon(text(bullet_lines[k])))]

\* a bullet with 'increase' and 'risk' in it was given the up-trend icon
C16_Witness ==
    /\ fmt_pc = "returned"
    /\ \E b \in Range(fmt_out.blocks) :
          /\ b.type = "bulleted_list_item"
          /\ startswith(b.text, <<"<chart up>">>)
          /\ contains(b.text, <<"i", "n", "c", "r", "e", "a", "s", "e">>)
          /\ contains(b.text, <<"r", "i", "s", "k">>)

----------------------------------------------------------------------------
(* Headings *)

\* C14: the iteration for a line appends a level-3 Heading exactly when the
\* line starts with '### ' or with a digit and '. ' and has '**' in it, and
\* the heading's text is the line without the '###' marker, without a
\* leading 'N. ' and without any '**'.
C14_Heading3RuleAndText ==
    [][AtLine =>
          LET line == current_line
              rule == \/ startswith(line, <<"#", "#", "#", " ">>)
                      \/ /\ Len(line) >= 3
                         /\ line[1] \in Digits
                         /\ SubSeq(line, 2, 3) = <<".", " ">>
                         /\ contains(line, <<"*", "*">>)
              unmarked == IF startswith(line, <<"#", "#", "#">>)
                          THEN strip(slice_from(line, 3)) ELSE line
              unnumbered == IF /\ Len(unmarked) >= 3
                               /\ unmarked[1] \in Digits
                               /\ SubSeq(unmarked, 2, 3) = <<".", " ">>
                            THEN slice_from(unmarked, 3) ELSE unmarked
              text == remove_all(unnumbered, <<"*", "*">>)
          IN  IF rule
              THEN fmt_out' = Returned(fmt_out.blocks \o <<Block("heading_3", text)>>)
              ELSE blocks_of_type(fmt_out'.blocks, "heading_3") =
                       blocks_of_type(fmt_out.blocks, "heading_3")]_vars

\* C15: a line is emitted as a level-2 Heading exactly when it starts with
\* '## ' or starts and ends with '**' and is longer than 10 characters; its
\* text gets the icon of the first family with a keyword in it, in the order
\* growth, target, warning, checkmark, money, and no icon when no family
\* matches; an iteration for such a line never raises.
C15_Heading2RuleAndIcon ==
    Parsing =>
        LET rule(l) == \/ startswith(l, <<"#", "#", " ">>)
                       \/ /\ startswith(l, <<"*", "*">>)
                          /\ endswith(l, <<"*", "*">>)
                          /\ Len(l) > 10
            text(l) == strip(remove_all(remove_all(l, <<"#", "#">>), <<"*", "*">>))
            with_icon(t) ==
                LET low == lower(t)
                IN  IF \/ contains(low, <<"o", "p", "p", "o", "r", "t", "u", "n", "i", "t", "y">>)
                       \/ contains(low, <<"m", "a", "r", "k", "e", "t">>)
                       \/ contains(low, <<"s", "i", "z", "e">>)
                    THEN <<"<chart up>", " ">> \o t
                    ELSE IF \/ contains(low, <<"s", "t", "r", "a", "t", "e", "g", "y">>)
                            \/ contains(low, <<"p", "o", "s", "i", "t", "i", "o", "n">>)
                            \/ contains(low, <<"c", "o", "m", "p", "e", "t", "i", "t", "i", "v", "e">>)
                    THEN <<"<target>", " ">> \o t
                    ELSE IF \/ contains(low, <<"r", "i", "s", "k">>)
                            \/ contains(low, <<"c", "h", "a", "l", "l", "e", "n", "g", "e">>)
                            \/ contains(low, <<"t", "h", "r", "e", "a", "t">>)
                    THEN <<"<warning>", " ">> \o t
                    ELSE IF \/ contains(low, <<"r", "e", "c", "o", "m", "m", "e", "n", "d">>)
                            \/ contains(low, <<"a", "c", "t", "i", "o", "n">>)
                            \/ contains(low, <<"n", "e", "x", "t">>)
                    THEN <<"<check>", " ">> \o t
                    ELSE IF \/ contains(low, <<"f", "i", "n", "a", "n", "c", "i", "a", "l">>)
                            \/ contains(low, <<"r", "e", "v", "e", "n", "u", "e">>)
                            \/ contains(low, <<"c", "o", "s", "t">>)
                    THEN <<"<money>", " ">> \o t
                    ELSE t
            heading_lines == SelectSeq(processed_lines, rule)
        IN  IF fmt_pc = "raised" THEN ~rule(current_line)
            ELSE blocks_of_type(fmt_out.blocks, "heading_2") =
                    [k \in 1..Len(heading_lines) |->
                        Block("heading_2", with_icon(text(heading_lines[k])))]

\* a '## ' heading with keywords of two families got the icon of the first,
\* or a bold line longer than 10 characters became a heading
C15_Witness ==
    /\ fmt_pc = "returned"
    /\ \E b \in Range(fmt_out.blocks) :
          /\ b.type = "heading_2"
          /\ startswith(b.text, <<"<chart up>">>)
          /\ contains(b.text, <<"r", "i", "s", "k">>)
    /\ startswith(fmt_content, <<"#", "#", " ">>)

----------------------------------------------------------------------------
(* The order of the rules *)

\* C17: the iteration for a non-blank line appends at most one block, the
\* one of the first rule the line matches in the order level-2 heading,
\* level-3 heading, bullet, callout, paragraph, and nothing when the line
\* matches no rule.
C17_FirstMatchingRuleWins ==
    [][(AtLine /\ current_line # <<>>) =>
          LET line == current_line
              kind == IF is_heading_2(line) THEN "heading_2"
                      ELSE IF is_heading_3(line) THEN "heading_3"
                      ELSE IF is_bullet(line) THEN "bulleted_list_item"
                      ELSE IF is_callout(line) THEN "callout"
                      ELSE IF is_paragraph(line) THEN "paragraph"
                      ELSE "none"
          IN  /\ ~fmt_out'.raised
              /\ IF kind = "none" THEN fmt_out'.blocks = fmt_out.blocks
                 ELSE /\ Len(fmt_out'.blocks) = Len(fmt_out.blocks) + 1
                      /\ SubSeq(fmt_out'.blocks, 1, Len(fmt_out.blocks)) = fmt_out.blocks
                      /\ fmt_out'.blocks[Len(fmt_out'.blocks)].type = kind]_vars

----------------------------------------------------------------------------
(* NotionClient: the risk table *)

\* one entry of the list _extract_risks_from_content returns
Risk(name, probability, impact, priority) ==
    [name |-> name, probability |-> probability, impact |-> impact,
     priority |-> priority]

\* the labels as they would be if the loop did not look for 'priority:'
RiskLabels_without_priority ==
    {<<"r", "i", "s", "k", ":">>,
     <<"p", "r", "o", "b", "a", "b", "i", "l", "i", "t", "y", ":">>,
     <<"i", "m", "p", "a", "c", "t", ":">>}

RiskLabels ==
    {<<"r", "i", "s", "k", ":">>,
     <<"p", "r", "o", "b", "a", "b", "i", "l", "i", "t", "y", ":">>,
     <<"i", "m", "p", "a", "c", "t", ":">>,
     <<"p", "r", "i", "o", "r", "i", "t", "y", ":">>}

BoldRiskKeywords ==
    {<<"t", "e", "c", "h", "n", "i", "c", "a", "l">>,
     <<"i", "n", "t", "e", "g", "r", "a", "t", "i", "o", "n">>,
     <<"d", "e", "v", "e", "l", "o", "p", "m", "e", "n", "t">>,
     <<"u", "s", "e", "r">>,
     <<"d", "a", "t", "a">>,
     <<"p", "e", "r", "f", "o", "r", "m", "a", "n", "c", "e">>,
     <<"s", "e", "c", "u", "r", "i", "t", "y">>,
     <<"t", "i", "m", "e", "l", "i", "n", "e">>}

\* 'High' / 'Low' / 'Medium' from the text after a Probability: or Impact: label
risk_level(text) ==
    IF contains(text, <<"h", "i", "g", "h">>) THEN "High"
    ELSE IF contains(text, <<"l", "o", "w">>) THEN "Low"
    ELSE "Medium"

\* the priority from the text after a Priority: label
risk_priority(text) ==
    IF contains(text, <<"h", "i", "g", "h">>) \/ contains(text, <<"c", "r", "i", "t", "i", "c", "a", "l">>) THEN "<large red circle> HIGH"
    ELSE IF contains(text, <<"l", "o", "w">>) THEN "<large green circle> LOW"
    ELSE "<large yellow circle> MEDIUM"

\* line.split(':', 1)[1].strip(); the callers have seen a label ending in
\* ':' in the line
after_colon(line) == strip(split_once(line, ":")[2])

\* _assess_risk_priority; full_content is not read
assess_risk_priority(risk_name, full_content) ==
    LET risk_name_lower == lower(risk_name)
    IN  IF contains_any(risk_name_lower,
                        {<<"s", "e", "c", "u", "r", "i", "t", "y">>,
                         <<"d", "a", "t", "a">>,
                         <<"i", "n", "t", "e", "g", "r", "a", "t", "i", "o", "n">>,
                         <<"u", "s", "e", "r", " ", "e", "x", "p", "e", "r", "i", "e", "n", "c", "e">>,
                         <<"p", "e", "r", "f", "o", "r", "m", "a", "n", "c", "e">>})
        THEN "<large red circle> HIGH"
        ELSE IF contains_any(risk_name_lower,
                             {<<"d", "o", "c", "u", "m", "e", "n", "t", "a", "t", "i", "o", "n">>,
                              <<"t", "r", "a", "i", "n", "i", "n", "g">>,
                              <<"m", "i", "n", "o", "r">>,
                              <<"c", "o", "s", "m", "e", "t", "i", "c">>})
        THEN "<large green circle> LOW"
        ELSE "<large yellow circle> MEDIUM"

\* the five default risks
TechnicalRisk ==
    Risk(<<"<personal computer> Technical Implementation Complexity">>,
         "Medium", "High", "<large red circle> HIGH")
IntegrationRisk ==
    Risk(<<"<link symbol> System Integration Challenges">>,
         "Medium", "Medium", "<large yellow circle> MEDIUM")
UserExperienceRisk ==
    Risk(<<"<busts in silhouette> User Experience Issues">>,
         "Low", "High", "<large yellow circle> MEDIUM")
TimelineRisk ==
    Risk(<<"<alarm clock> Development Timeline Delays">>,
         "Medium", "Medium", "<large yellow circle> MEDIUM")
TeamRisk ==
    Risk(<<"<technologist> Team Skill Gap Challenges">>,
         "Medium", "Medium", "<large yellow circle> MEDIUM")

\* _generate_default_project_risks as it would be if it returned all five
\* risks for every text
generate_default_project_risks_all_five(content) ==
    <<TechnicalRisk, IntegrationRisk, UserExperienceRisk, TimelineRisk, TeamRisk>>

\* _generate_default_project_risks: three risks depend on words of the text,
\* two are always added
generate_default_project_risks(content) ==
    LET content_lower == lower(content)
    IN  (IF contains_any(content_lower,
                         {<<"d", "e", "v", "e", "l", "o", "p", "m", "e", "n", "t">>,
                          <<"c", "o", "d", "e">>,
                          <<"f", "e", "a", "t", "u", "r", "e">>,
                          <<"a", "p", "p">>,
                          <<"w", "e", "b", "s", "i", "t", "e">>})
         THEN <<TechnicalRisk>> ELSE <<>>)
        \o (IF contains_any(content_lower,
                            {<<"i", "n", "t", "e", "g", "r", "a", "t", "i", "o", "n">>,
                             <<"a", "p", "i">>,
                             <<"s", "y", "s", "t", "e", "m">>,
                             <<"p", "l", "a", "t", "f", "o", "r", "m">>})
            THEN <<IntegrationRisk>> ELSE <<>>)
        \o (IF contains_any(content_lower,
                            {<<"u", "s", "e", "r">>,
                             <<"c", "u", "s", "t", "o", "m", "e", "r">>,
                             <<"e", "x", "p", "e", "r", "i", "e", "n", "c", "e">>,
                             <<"i", "n", "t", "e", "r", "f", "a", "c", "e">>})
            THEN <<UserExperienceRisk>> ELSE <<>>)
        \o <<TimelineRisk, TeamRisk>>

\* what one iteration of the loop of _extract_risks_from_content leaves in
\* risks and current_risk
LoopState(risks, current_risk) == [risks |-> risks, current_risk |-> current_risk]

\* one iteration of the loop of _extract_risks_from_content (the body of the
\* for statement); current_risk is the empty sequence for None and a sequence
\* of one risk otherwise
extract_risks_line(raw_line, risks, current_risk, content) ==
    LET line == strip(raw_line)
        low  == lower(line)
    IN  IF contains_any(low, RiskLabels)
        THEN IF contains(low, <<"r", "i", "s", "k", ":">>)
             THEN LET risk_name == after_colon(line)
                  IN  IF risk_name # <<>> /\ Len(risk_name) < 50
                      THEN LoopState(risks,
                               <<Risk(risk_name, "Medium", "Medium", "MEDIUM")>>)
                      ELSE LoopState(risks, current_risk)
             ELSE IF contains(low, <<"p", "r", "o", "b", "a", "b", "i", "l", "i", "t", "y", ":">>) /\ current_risk # <<>>
             THEN LoopState(risks,
                      <<[current_risk[1] EXCEPT
                            !.probability = risk_level(lower(after_colon(line)))]>>)
             ELSE IF contains(low, <<"i", "m", "p", "a", "c", "t", ":">>) /\ current_risk # <<>>
             THEN LoopState(risks,
                      <<[current_risk[1] EXCEPT
                            !.impact = risk_level(lower(after_colon(line)))]>>)
             ELSE IF contains(low, <<"p", "r", "i", "o", "r", "i", "t", "y", ":">>) /\ current_risk # <<>>
             THEN LoopState(Append(risks,
                                [current_risk[1] EXCEPT
                                    !.priority = risk_priority(lower(after_colon(line)))]),
                            <<>>)
             ELSE LoopState(risks, current_risk)
        ELSE IF contains(line, <<"*", "*">>) /\ contains_any(low, BoldRiskKeywords)
        THEN LET risk_name == strip(remove_all(line, <<"*", "*">>))
             IN  IF Len(risk_name) < 60
                 THEN LoopState(Append(risks,
                                    Risk(risk_name, "Medium", "Medium",
                                         assess_risk_priority(risk_name, content))),
                                current_risk)
                 ELSE LoopState(risks, current_risk)
        ELSE LoopState(risks, current_risk)

\* the loop of _extract_risks_from_content over the lines: the rest of the
\* lines is gone through with what the iteration for the first line left
RECURSIVE extract_risks_loop(_, _, _, _)
extract_risks_loop(lines, risks, current_risk, content) ==
    IF lines = <<>> THEN risks
    ELSE CHOOSE found \in
             {extract_risks_loop(Tail(lines), after.risks, after.current_risk, content) :
                 after \in {extract_risks_line(Head(lines), risks, current_risk, content)}} :
             TRUE

\* the risks found in the text by labels and bold headings
parsed_from_content(content) ==
    extract_risks_loop(split_lines(content), <<>>, <<>>, content)

\* _extract_risks_from_content as it would be without the [:5] of its return
extract_risks_from_content_without_limit(content) ==
    LET risks == parsed_from_content(content)
    IN  IF risks = <<>> THEN generate_default_project_risks(content) ELSE risks

\* _extract_risks_from_content
extract_risks_from_content(content) ==
    LET risks == parsed_from_content(content)
    IN  slice_to(IF risks = <<>> THEN generate_default_project_risks(content)
                 ELSE risks, 5)

\* a table block; table_width is the length of its rows
Table(rows) == [type |-> "table", text |-> <<>>, rows |-> rows]

\* _build_dynamic_risk_table: a header row and one row for each risk
build_dynamic_risk_table(risks) ==
    << <<<<"Risk Category">>, <<"Probability">>, <<"Impact">>, <<"Priority">>>> >>
    \o [i \in 1..Len(risks) |->
           <<risks[i].name, <<risks[i].probability>>, <<risks[i].impact>>,
             <<risks[i].priority>>>>]

\* _build_risk_analysis_blocks before its call of the line parser
risk_table_blocks(content) ==
    LET parsed_risks == extract_risks_from_content(content)
    IN  IF parsed_risks # <<>>
        THEN <<Block("heading_2", <<"<warning> Project-Specific Risk Assessment Matrix">>),
               Table(build_dynamic_risk_table(parsed_risks))>>
        ELSE <<Block("heading_2", <<"<warning> Risk Analysis Results">>)>>

\* blocks.extend(self._parse_content_to_blocks(content)); return blocks
with_parsed_content(blocks, content) ==
    LET parsed == parse_content_to_blocks(content)
    IN  IF parsed.raised THEN Raised ELSE Returned(blocks \o parsed.blocks)

\* _build_risk_analysis_blocks
build_risk_analysis_blocks(content) ==
    with_parsed_content(risk_table_blocks(content), content)

----------------------------------------------------------------------------
(* NotionClient: the report of one analysis type *)

\* the rows of the tables of four analysis types
MarketRows ==
    << <<<<"Market Factor">>, <<"Assessment">>>>,
       <<<<"<target> Target Market">>,
         <<"Health-conscious consumers, 25-55 years">>>>,
       <<<<"<bar chart> Market Size">>,
         <<"Premium supplement market, $40-100+ products">>>>,
       <<<<"<chart up> Growth Rate">>,
         <<"15-25% annually in premium segments">>>>,
       <<<<"<rocket> Opportunity">>,
         <<"High potential for bioavailable products">>>> >>

CompetitiveRows ==
    << <<<<"Competitor">>,
         <<"Position">>,
         <<"Price Range">>,
         <<"Key Strength">>>>,
       <<<<"<test tube> Thorne HealthTech">>,
         <<"Clinical-grade">>,
         <<"$25-60">>,
         <<"Research-backed">>>>,
       <<<<"<seedling> MaryRuth Organics">>,
         <<"Organic, Family">>,
         <<"$20-50">>,
         <<"Liquid delivery">>>>,
       <<<<"<pill> Pure Encapsulations">>,
         <<"Practitioner">>,
         <<"$15-45">>,
         <<"Hypoallergenic">>>>,
       <<<<"<rocket> CYMBIOTIKA">>,
         <<"Premium Bio-available">>,
         <<"$40-100+">>,
         <<"Liposomal delivery">>>> >>

TechnicalRows ==
    << <<<<"Development Phase">>, <<"Timeline">>, <<"Team Requirements">>>>,
       <<<<"<target> Planning & Design">>,
         <<"2-4 weeks">>,
         <<"1 Senior + 1 Junior Dev">>>>,
       <<<<"<construction> Core Development">>,
         <<"8-12 weeks">>,
         <<"1 Senior + 2-3 Junior Dev">>>>,
       <<<<"<test tube> Testing & Launch">>,
         <<"3-4 weeks">>,
         <<"Full team involvement">>>>,
       <<<<"<chart up> Optimization">>,
         <<"Ongoing">>,
         <<"1-2 Junior Dev maintenance">>>> >>

FinancialRows ==
    << <<<<"Financial Metric">>, <<"Year 1">>, <<"Year 2">>, <<"Year 3">>>>,
       <<<<"<banknote with dollar sign> Revenue Potential">>,
         <<"$200K - $500K">>,
         <<"$800K - $1.5M">>,
         <<"$2M - $4M">>>>,
       <<<<"<money with wings> Development Costs">>,
         <<"$150K - $300K">>,
         <<"$100K - $200K">>,
         <<"$75K - $150K">>>>,
       <<<<"<chart up> Projected Profit">>,
         <<"$50K - $200K">>,
         <<"$400K - $800K">>,
         <<"$1M - $2M">>>>,
       <<<<"<target> ROI Estimate">>,
         <<"25% - 67%">>,
         <<"400% - 800%">>,
         <<"1300% - 2000%">>>> >>

\* _build_market_analysis_blocks and its siblings: a heading, the table of
\* the type, then the blocks of the text
build_market_analysis_blocks(content) ==
    with_parsed_content(
        <<Block("heading_2", <<"<chart up> Market Opportunity Assessment">>),
          Table(MarketRows)>>, content)

build_competitive_analysis_blocks(content) ==
    with_parsed_content(
        <<Block("heading_2", <<"<office building> Competitive Landscape">>),
          Table(CompetitiveRows)>>, content)

build_technical_analysis_blocks(content) ==
    with_parsed_content(
        <<Block("heading_2", <<"<gear> Development Roadmap">>),
          Table(TechnicalRows)>>, content)

build_financial_analysis_blocks(content) ==
    with_parsed_content(
        <<Block("heading_2", <<"<money> Financial Projections">>),
          Table(FinancialRows)>>, content)

InsightKeywords ==
    {<<"o", "p", "p", "o", "r", "t", "u", "n", "i", "t", "y">>,
     <<"k", "e", "y">>,
     <<"i", "m", "p", "o", "r", "t", "a", "n", "t">>,
     <<"r", "e", "c", "o", "m", "m", "e", "n", "d">>,
     <<"s", "h", "o", "u", "l", "d">>,
     <<"s", "i", "g", "n", "i", "f", "i", "c", "a", "n", "t">>}

\* _extract_key_insight: insights[:1] is the first line that is appended,
\* which is the first long plain line with a keyword or of more than 80
\* characters
extract_key_insight(content) ==
    LET raw   == split_lines(content)
        lines == [i \in 1..Len(raw) |-> strip(raw[i])]
        hits  == {i \in 1..Len(lines) :
                     /\ Len(lines[i]) > 50
                     /\ ~startswith(lines[i], <<"#">>)
                     /\ ~startswith(lines[i], <<"*">>)
                     /\ ~startswith(lines[i], <<"-">>)
                     /\ ~contains(lines[i], <<"*", "*">>)
                     /\ \/ contains_any(lower(lines[i]), InsightKeywords)
                        \/ Len(lines[i]) > 80}
    IN  IF hits = {} THEN <<>>
        ELSE lines[CHOOSE i \in hits : \A j \in hits : i <= j]

\* emoji_map.get(analysis_type, ...) of create_beautiful_analysis_report
emoji_of(analysis_type) ==
    CASE analysis_type = "Market Analysis" -> "<bar chart>"
      [] analysis_type = "Competitive Analysis" -> "<office building>"
      [] analysis_type = "Risk Assessment" -> "<warning>"
      [] analysis_type = "Technical Feasibility" -> "<gear>"
      [] analysis_type = "Financial Overview" -> "<money>"
      [] OTHER -> "<clipboard>"

\* the blocks every report starts and ends with
title_heading(analysis_type) ==
    Block("heading_1", <<"<rocket> Cymbiotika ", analysis_type>>)
footer_callout ==
    Block("callout", <<"<microscope> Powered by Cymbiotika AI Analysis Engine">>)

\* _build_comprehensive_report_blocks; the text of datetime.now() is "<now>"
build_comprehensive_report_blocks(project, analysis_type, content, emoji) ==
    LET header ==
            <<title_heading(analysis_type),
              Block("paragraph", <<"PROJECT: ">> \o project),
              Block("paragraph", <<"ANALYSIS TYPE: ", emoji, " ", analysis_type>>),
              Block("paragraph", <<"GENERATED: ", "<now>">>),
              Block("divider", <<>>)>>
        summary == extract_key_insight(content)
        insight == IF summary # <<>>
                   THEN <<Block("callout", <<"<bulb> KEY INSIGHT: ">> \o summary)>>
                   ELSE <<>>
        body == IF analysis_type = "Market Analysis"
                THEN build_market_analysis_blocks(content)
                ELSE IF analysis_type = "Competitive Analysis"
                THEN build_competitive_analysis_blocks(content)
                ELSE IF analysis_type = "Risk Assessment"
                THEN build_risk_analysis_blocks(content)
                ELSE IF analysis_type = "Technical Feasibility"
                THEN build_technical_analysis_blocks(content)
                ELSE IF analysis_type = "Financial Overview"
                THEN build_financial_analysis_blocks(content)
                ELSE parse_content_to_blocks(content)
        footer == <<Block("divider", <<>>), footer_callout>>
    IN  IF body.raised THEN Raised
        ELSE Returned(header \o insight \o body.blocks \o footer)

----------------------------------------------------------------------------
(* The risk table built from texts *)

\* the longest text given to _build_risk_analysis_blocks, in pieces
MaxRiskTokens == 3

\* the pieces of the texts: labelled lines, the bold marker, words the bold
\* headings and the default risks look for, a word nothing looks for, and two
\* bold headings at once
RiskTokens ==
    {<<"R", "i", "s", "k", ":", " ", "o", "u", "t", "a", "g", "e", "\n">>,
     <<"P", "r", "i", "o", "r", "i", "t", "y", ":", " ", "h", "i", "g", "h", "\n">>,
     <<"P", "r", "o", "b", "a", "b", "i", "l", "i", "t", "y", ":", " ", "l", "o", "w", "\n">>,
     <<"*", "*">>,
     <<"s", "e", "c", "u", "r", "i", "t", "y">>,
     <<"c", "o", "d", "e", " ">>,
     <<"a", "p", "i", " ">>,
     <<"u", "s", "e", "r", " ">>,
     <<"p", "l", "a", "n", " ">>,
     <<"\n">>,
     <<"*", "*", "s", "e", "c", "u", "r", "i", "t", "y", "*", "*", "\n", "*", "*", "t", "i", "m", "e", "l", "i", "n", "e", "*", "*", "\n">>}

RiskTexts == TextsOf(RiskTokens, MaxRiskTokens)

\* _build_risk_analysis_blocks is called with a text and builds the heading
\* and the table
BuildRiskTable ==
    /\ fmt_pc = "idle"
    /\ \E content \in RiskTexts :
          /\ fmt_content' = content
          /\ fmt_out' = [NoOutput EXCEPT
                             !.blocks = risk_table_blocks(content),
                             !.risks = extract_risks_from_content(content)]
    /\ fmt_pc' = "table"
    /\ UNCHANGED <<fmt_type, fmt_line, fmt_risk, run_vars>>

\* it extends the blocks by those of the text and returns, or the parser raises
ParseRiskContent ==
    /\ fmt_pc = "table"
    /\ LET built == with_parsed_content(fmt_out.blocks, fmt_content)
       IN  IF built.raised
           THEN fmt_out' = Raised /\ fmt_pc' = "raised"
           ELSE /\ fmt_out' = [built EXCEPT !.risks = fmt_out.risks]
                /\ fmt_pc' = "returned"
    /\ UNCHANGED <<fmt_type, fmt_content, fmt_line, fmt_risk, run_vars>>

RiskNext == BuildRiskTable \/ ParseRiskContent

RiskSpec == Init /\ [][RiskNext]_vars

----------------------------------------------------------------------------
(* The report built from texts *)

\* the longest text given to _build_comprehensive_report_blocks, in pieces
MaxReportTokens == 3

\* the pieces of the texts: heading markers, a digit, words, a line break,
\* the text of a failed analysis, a sentence long enough to be the key
\* insight, and a labelled risk
ReportTokens ==
    {<<"#", "#", "#", " ">>,
     <<"#", "#", "#">>,
     <<"5">>,
     <<" ", "t", "h", "i", "n", "g", "s">>,
     <<"\n">>,
     <<"#", "#", " ", "m", "a", "r", "k", "e", "t">>,
     <<"A", "n", "a", "l", "y", "s", "i", "s", " ", "f", "a", "i", "l", "e", "d",
       ":", " ", "t", "i", "m", "e", "o", "u", "t">>,
     <<"W", "e", " ", "r", "e", "c", "o", "m", "m", "e", "n", "d", " ", "a", " ",
       "s", "t", "a", "g", "e", "d", " ", "l", "a", "u", "n", "c", "h", " ", "i",
       "n", " ", "t", "h", "e", " ", "p", "r", "e", "m", "i", "u", "m", " ", "s",
       "u", "p", "p", "l", "e", "m", "e", "n", "t", " ", "s", "e", "g", "m", "e",
       "n", "t">>,
     <<"R", "i", "s", "k", ":", " ", "o", "u", "t", "a", "g", "e", "\n", "P", "r",
       "i", "o", "r", "i", "t", "y", ":", " ", "l", "o", "w">>}

ReportTexts == TextsOf(ReportTokens, MaxReportTokens)

ReportTypes == {TypeOrder[i].report : i \in 1..NumTypes}

\* create_beautiful_analysis_report calls _build_comprehensive_report_blocks
BuildReport ==
    /\ fmt_pc = "idle"
    /\ \E analysis_type \in ReportTypes, content \in ReportTexts :
          LET built == build_comprehensive_report_blocks(
                           PageTitle, analysis_type, content, emoji_of(analysis_type))
          IN  /\ fmt_type' = analysis_type
              /\ fmt_content' = content
              /\ fmt_out' = built
              /\ fmt_pc' = IF built.raised THEN "raised" ELSE "returned"
    /\ UNCHANGED <<fmt_line, fmt_risk, run_vars>>

ReportNext == BuildReport

ReportSpec == Init /\ [][ReportNext]_vars

----------------------------------------------------------------------------
(* The analyzers applied to answers of the AI service *)

\* the longest answer of the AI service, in pieces
MaxReplyTokens == 3

\* the pieces of the answers: whitespace and text
ReplyTokens == {<<" ">>, <<"\n">>, <<"a">>, <<"b", " ", "c">>}

TextReplies ==
    {Reply(TRUE, t) : t \in TextsOf(ReplyTokens, MaxReplyTokens)} \cup {Raises}

\* analyze(project_name, description) of one analyzer is called; the prompt
\* is the analyzer's fixed text with both arguments put in, whatever they are
Analyze ==
    /\ fmt_pc = "idle"
    /\ \E i \in 1..NumTypes, project \in {NoText, PageTitle}, reply \in TextReplies :
          LET r == analyze(TypeOrder[i].key, reply)
          IN  /\ project_name' = project
              /\ fmt_type' = TypeOrder[i].key
              /\ fmt_content' = reply.content
              /\ fmt_out' = [NoOutput EXCEPT !.raised = r.raised, !.value = r.value]
              /\ fmt_pc' = IF reply.ok THEN "answered" ELSE "failed"
              /\ log' = log \cup r.logged
    /\ UNCHANGED <<pc, properties, selected_types, analysis_results, idx,
                   analysis_content, recommendation, result, exc, pageStatus,
                   pageRecommendation, childPages, calls, exit_code, fmt_line,
                   fmt_risk>>

AnalyzeNext == Analyze

AnalyzeSpec == Init /\ [][AnalyzeNext]_vars

\* C20 as stated: analyze never raises and returns the string the AI service
\* returned, or the 'Analysis failed: ...' string when the request failed.
C20_ReturnsTheAnswerItself ==
    /\ ~fmt_out.raised
    /\ fmt_pc = "answered" => fmt_out.value = fmt_content
    /\ fmt_pc = "failed" => fmt_out.value = SentinelText

\* C20 (amended): analyze never raises, whatever the project name; it returns
\* the answer of the AI service without its leading and trailing whitespace
\* and otherwise unchanged, or the 'Analysis failed: ...' string when the
\* request failed.
C20_ReturnsTheAnswerStripped ==
    /\ ~fmt_out.raised
    /\ fmt_pc = "failed" => fmt_out.value = SentinelText /\ "AI generation failed" \in log
    /\ fmt_pc = "answered" =>
          LET n == Len(fmt_out.value)
          IN  /\ \E k \in 0..(Len(fmt_content) - n) :
                    /\ SubSeq(fmt_content, k + 1, k + n) = fmt_out.value
                    /\ \A j \in 1..Len(fmt_content) :
                          (j <= k \/ j > k + n) => fmt_content[j] \in Whitespace
              /\ n > 0 => /\ fmt_out.value[1] \notin Whitespace
                          /\ fmt_out.value[n] \notin Whitespace

\* an answer with whitespace around its text was returned without it, for an
\* empty project name
C20_Witness ==
    /\ fmt_pc = "answered"
    /\ project_name = NoText
    /\ fmt_content = <<" ", "a", "\n">>
    /\ fmt_out.value = <<"a">>

----------------------------------------------------------------------------
(* The frame of a report *)

\* C11: for a text that is not empty, the blocks are not empty, the first is
\* the title heading and the last is the footer callout.
C11_TitleFirstFooterLast ==
    (fmt_pc # "idle" /\ fmt_content # <<>>) =>
        /\ ~fmt_out.raised
        /\ fmt_out.blocks # <<>>
        /\ fmt_out.blocks[1] = title_heading(fmt_type)
        /\ fmt_out.blocks[Len(fmt_out.blocks)] = footer_callout

\* C13: for every text, the empty one and 'Analysis failed: ...' included,
\* the formatter returns, and the blocks have the title heading, a table and
\* the footer callout among them.
C13_FormatterNeverRaises ==
    fmt_pc # "idle" =>
        /\ ~fmt_out.raised
        /\ title_heading(fmt_type) \in Range(fmt_out.blocks)
        /\ \E b \in Range(fmt_out.blocks) : b.type = "table"
        /\ footer_callout \in Range(fmt_out.blocks)

\* C18: for each of the six analysis types and every text the blocks have
\* exactly one table, it comes before the blocks of the text, and the rows
\* of the Market, Competitive, Technical and Financial tables are the same
\* for every text.
C18_OneTableBeforeTheText ==
    fmt_pc # "idle" =>
        /\ ~fmt_out.raised
        /\ LET blocks == fmt_out.blocks
               tables == {i \in 1..Len(blocks) : blocks[i].type = "table"}
               parsed == Len(parse_content_to_blocks(fmt_content).blocks)
           IN  /\ Cardinality(tables) = 1
               /\ \A i \in tables :
                     /\ i <= Len(blocks) - 2 - parsed
                     /\ fmt_type = "Market Analysis" => blocks[i].rows = MarketRows
                     /\ fmt_type = "Competitive Analysis" => blocks[i].rows = CompetitiveRows
                     /\ fmt_type = "Technical Feasibility" => blocks[i].rows = TechnicalRows
                     /\ fmt_type = "Financial Overview" => blocks[i].rows = FinancialRows

----------------------------------------------------------------------------
(* The default risks *)

\* no risk was found in the text by labels or bold headings, and the table
\* has been built
NoRiskFound ==
    /\ fmt_pc \in {"table", "returned"}
    /\ parsed_from_content(fmt_content) = <<>>

\* the names in the first column of the risk table, below its header
risk_names == [i \in 1..(Len(fmt_out.blocks[2].rows) - 1) |->
                  fmt_out.blocks[2].rows[i + 1][1]]

\* C19 as stated: when no risk is found the table has the same five default
\* risks for every text.
C19_FiveFixedDefaults ==
    NoRiskFound =>
        /\ fmt_out.blocks[2].type = "table"
        /\ risk_names = <<TechnicalRisk.name, IntegrationRisk.name,
                          UserExperienceRisk.name, TimelineRisk.name, TeamRisk.name>>

\* C19 (amended): when no risk is found the table has between two and five
\* default risks that depend on the text: the technical risk if the text has
\* development, code, feature, app or website in it, the integration risk
\* for integration, api, system or platform, the user-experience risk for
\* user, customer, experience or interface, and always the timeline and the
\* team risk, in this order.
C19_DefaultsFollowTheText ==
    NoRiskFound =>
        LET low == lower(fmt_content)
            technical == \/ contains(low, <<"d", "e", "v", "e", "l", "o", "p", "m", "e", "n", "t">>)
                         \/ contains(low, <<"c", "o", "d", "e">>)
                         \/ contains(low, <<"f", "e", "a", "t", "u", "r", "e">>)
                         \/ contains(low, <<"a", "p", "p">>)
                         \/ contains(low, <<"w", "e", "b", "s", "i", "t", "e">>)
            integration == \/ contains(low, <<"i", "n", "t", "e", "g", "r", "a", "t", "i", "o", "n">>)
                           \/ contains(low, <<"a", "p", "i">>)
                           \/ contains(low, <<"s", "y", "s", "t", "e", "m">>)
                           \/ contains(low, <<"p", "l", "a", "t", "f", "o", "r", "m">>)
            experience == \/ contains(low, <<"u", "s", "e", "r">>)
                          \/ contains(low, <<"c", "u", "s", "t", "o", "m", "e", "r">>)
                          \/ contains(low, <<"e", "x", "p", "e", "r", "i", "e", "n", "c", "e">>)
                          \/ contains(low, <<"i", "n", "t", "e", "r", "f", "a", "c", "e">>)
        IN  /\ fmt_out.blocks[2].type = "table"
            /\ risk_names =
                  (IF technical THEN <<TechnicalRisk.name>> ELSE <<>>)
                  \o (IF integration THEN <<IntegrationRisk.name>> ELSE <<>>)
                  \o (IF experience THEN <<UserExperienceRisk.name>> ELSE <<>>)
                  \o <<TimelineRisk.name, TeamRisk.name>>
            /\ fmt_out.blocks[2].rows =
                  build_dynamic_risk_table(fmt_out.risks)
            /\ Len(fmt_out.risks) \in 2..5

\* a text without risks and with a word of the integration family only got
\* three default risks
C19_Witness ==
    /\ NoRiskFound
    /\ fmt_pc = "returned"
    /\ risk_names = <<IntegrationRisk.name, TimelineRisk.name, TeamRisk.name>>

----------------------------------------------------------------------------
(* Order of the collaborator requests within one run *)

\* C21: the requests of a run form one sequence in which every report
\* creation directly follows the analyzer request of the same type, every
\* analyzer request that is not the last request is directly followed by the
\* report creation of its type, the analyzer requests come in the order
\* Market, Competitive, Risk, Technical, Financial, Solution whatever the
\* order of the selected list, and analysis_results lists its types in that
\* same order.
C21_RequestsInFixedOrder ==
    LET keys    == <<"market", "competitor", "risk", "technical", "financial",
                     "solution">>
        reports == <<"Market Analysis", "Competitive Analysis", "Risk Assessment",
                     "Technical Feasibility", "Financial Overview",
                     "Solution Recommendations">>
        report_of(key) == CASE key = "market"     -> "Market Analysis"
                            [] key = "competitor" -> "Competitive Analysis"
                            [] key = "risk"       -> "Risk Assessment"
                            [] key = "technical"  -> "Technical Feasibility"
                            [] key = "financial"  -> "Financial Overview"
                            [] key = "solution"   -> "Solution Recommendations"
                            [] OTHER              -> "none"
        gens    == GeneratedKeys
        n       == Len(calls)
    IN  /\ \A k \in 1..n :
              calls[k].op = "create" =>
                  /\ k > 1
                  /\ calls[k-1].op = "generate"
                  /\ calls[k].arg = report_of(calls[k-1].arg)
        /\ \A k \in 1..(n-1) :
              (calls[k].op = "generate" /\ calls[k].arg # "executive") =>
                  calls[k+1].op = "create"
        /\ (pc = "publish") =
              (n >= 1 /\ calls[n].op = "generate" /\ calls[n].arg # "executive")
        /\ gens = SelectSeq(keys, LAMBDA key : key \in Range(gens))
        /\ Range(analysis_results) \subseteq IssuedArgs("create")
        /\ analysis_results =
              SelectSeq(reports, LAMBDA report : report \in Range(analysis_results))

\* a run whose list names Solution before Market generated Market first
C21_Witness ==
    /\ PastTypes
    /\ selected_types = <<"Solution Recommendations", "Market Analysis">>
    /\ GeneratedKeys = <<"market", "solution">>
    /\ analysis_results = <<"Market Analysis", "Solution Recommendations">>

\* C22: in every state of a run no analyzer has received two requests and no
\* report two creations, also when selected_types names a type several
\* times; the analyzers with an AI request in the history are exactly those
\* of the selected types whose analyze call is behind the run, whether the
\* request succeeded or raised, and reports are created for such types only.
C22_AtMostOncePerType ==
    LET gens     == GeneratedKeys
        creates  == SelectSeq(calls, LAMBDA c : c.op = "create")
        created  == {creates[k].arg : k \in 1..Len(creates)}
        analyzed == {i \in 1..NumTypes :
                        /\ TypeOrder[i].label \in Range(selected_types)
                        /\ i < idx \/ (i = idx /\ pc = "publish")}
    IN  /\ Cardinality(Range(gens)) = Len(gens)
        /\ Range(gens) = {TypeOrder[i].key : i \in analyzed}
        /\ Cardinality(created) = Len(creates)
        /\ created \subseteq {TypeOrder[i].report : i \in analyzed}

\* a finished run whose list names Market twice: one AI request for it, which
\* raised, and one report creation
C22_Witness ==
    /\ Finished
    /\ selected_types = <<"Market Analysis", "Market Analysis">>
    /\ Len(CallsOf("generate", "market")) = 1
    /\ "market" \in FailedArgs("generate")
    /\ Len(CallsOf("create", "Market Analysis")) = 1

----------------------------------------------------------------------------
(* Status writes of one run *)

\* C23: no status value is sent to update_page_status more than once in a
\* run, so no status write is made again after it failed.
C23_EachStatusSentOnce ==
    \A s \in {"Analyzing", "Complete", "Error"} :
        Cardinality({k \in 1..Len(calls) :
            calls[k].op = "update_status" /\ calls[k].arg = s}) <= 1

----------------------------------------------------------------------------
(* Termination of one run *)

\* Every await of create_selective_analysis is on a collaborator call that
\* eventually returns or raises, so the step that is enabled is eventually
\* taken: weak fairness on the steps of the run.
LiveSpec == Init /\ [][Next]_vars /\ WF_vars(Next)

\* C24: every run eventually finishes, by returning a result whose status is
\* Complete or Error or by raising, and at no point has it made more than 6
\* analyzer requests, 6 report creations or 1 executive-summary request.
C24_RunTerminates ==
    /\ <>Finished
    /\ [](pc = "returned" => result.status \in {"Complete", "Error"})
    /\ [](LET count(op, args) == Cardinality({k \in 1..Len(calls) :
                                     calls[k].op = op /\ calls[k].arg \in args})
          IN  /\ count("generate", Range(AllKeys)) <= 6
              /\ count("create", {TypeOrder[i].report : i \in 1..NumTypes}) <= 6
              /\ count("generate", {"executive"}) <= 1)

\* a run that returned after six analyzer requests, six report creations and
\* the executive-summary request
C24_Witness ==
    /\ pc = "returned"
    /\ result.status = "Complete"
    /\ GeneratedKeys = AllKeys
    /\ Len(SelectSeq(calls, LAMBDA c : c.op = "create")) = 6
    /\ Len(CallsOf("generate", "executive")) = 1

----------------------------------------------------------------------------
(* The line parser applied to a text and to the text extended by another *)

\* the longest of the two texts, in pieces
MaxJoinTokens == 2

\* the pieces of the two texts: heading, bullet and numbering markers, a line
\* break, a keyword and a plain sentence
JoinTokens ==
    {<<"#", "#", " ">>,
     <<"#", "#", "#", " ">>,
     <<"-", " ">>,
     <<"5">>,
     <<".", " ">>,
     <<"\n">>,
     <<"r", "i", "s", "k">>,
     <<" ", "a", " ", "p", "l", "a", "i", "n", " ", "s", "e", "n", "t", "e", "n", "c", "e">>}

JoinTexts == TextsOf(JoinTokens, MaxJoinTokens)

\* _parse_content_to_blocks is called with a text A
ParseFirst ==
    /\ fmt_pc = "idle"
    /\ \E a \in JoinTexts :
          /\ fmt_content' = a
          /\ fmt_out' = parse_content_to_blocks(a)
    /\ fmt_pc' = "first"
    /\ UNCHANGED <<fmt_type, fmt_line, fmt_risk, run_vars>>

\* _parse_content_to_blocks is called with A, a line break and a text B
ParseJoined ==
    /\ fmt_pc = "first"
    /\ \E b \in JoinTexts :
          LET joined == fmt_content \o <<"\n">> \o b
          IN  /\ fmt_content' = joined
              /\ fmt_out' = parse_content_to_blocks(joined)
    /\ fmt_pc' = "joined"
    /\ UNCHANGED <<fmt_type, fmt_line, fmt_risk, run_vars>>

JoinNext == ParseFirst \/ ParseJoined

JoinSpec == Init /\ [][JoinNext]_vars

\* C25: for any two texts A and B, the call with A, a line break and B
\* returns the blocks of the call with A followed by the blocks of the call
\* with B.
C25_BlocksOfJoinedText ==
    [][(fmt_pc = "first" /\ fmt_pc' = "joined") =>
          LET b == slice_from(fmt_content', Len(fmt_content) + 1)
          IN  fmt_out' = Returned(fmt_out.blocks \o parse_content_to_blocks(b).blocks)]_vars

----------------------------------------------------------------------------
(* The write of the status Analyzing *)

\* C26: the write of Analyzing is the second request of a run, right after
\* the retrieve that reads the selected types, and every analyzer request and
\* report creation comes after a successful one; when the write raised, no
\* analyzer request and no report creation is ever made, the run goes to its
\* handler with that exception, and once it has finished it has raised after
\* exactly one write of Error.
C26_AnalyzingFirstOrAbort ==
    LET n        == Len(calls)
        writes   == {k \in 1..n : calls[k].op = "update_status"
                                  /\ calls[k].arg = "Analyzing"}
        work     == {k \in 1..n : calls[k].op \in {"generate", "create"}}
        errors   == {k \in 1..n : calls[k].op = "update_status"
                                  /\ calls[k].arg = "Error"}
    IN  /\ writes \subseteq {2}
        /\ n >= 2 => (writes = {2} /\ calls[1].op = "retrieve")
        /\ work # {} => calls[2].ok
        /\ \A k \in work : k > 2
        /\ (writes = {2} /\ ~calls[2].ok) =>
              /\ work = {}
              /\ pc \in {"handler", "raised"}
              /\ exc = "update_page_status Analyzing"
              /\ pc = "handler" => errors = {}
              /\ pc = "raised" => errors = {3}

\* a run that raised after the write of Analyzing failed
C26_Witness ==
    /\ pc = "raised"
    /\ Len(calls) = 3
    /\ calls[2] = Call("update_status", "Analyzing", FALSE)
    /\ calls[3].op = "update_status" /\ calls[3].arg = "Error"

----------------------------------------------------------------------------
(* Names of selected_types that are not one of the six labels *)

\* C27: only the six labels of selected_types lead to requests: the analyzers
\* requested and the reports created are those of the labels the list holds,
\* whatever other names it holds. When the list is not empty and holds none
\* of the six labels, no analyzer request, report creation or
\* executive-summary request is ever made, a finished run has made a write of
\* Error, and a run that returned left the page in Error and returned
\* total_reports = 0, no analysis_results and the status Error.
C27_UnknownNamesIgnored ==
    LET selected == Range(selected_types)
        known    == {i \in 1..NumTypes : TypeOrder[i].label \in selected}
    IN  /\ IssuedArgs("generate") \ {"executive"} \subseteq
               {TypeOrder[i].key : i \in known}
        /\ IssuedArgs("create") \subseteq {TypeOrder[i].report : i \in known}
        /\ PastTypes =>
               IssuedArgs("generate") \ {"executive"} = {TypeOrder[i].key : i \in known}
        /\ (pc # "read_types" /\ selected # {} /\ known = {}) =>
              /\ IssuedArgs("generate") = {}
              /\ IssuedArgs("create") = {}
              /\ childPages = <<>>
              /\ Finished => "Error" \in IssuedArgs("update_status")
              /\ pc = "returned" =>
                    /\ pageStatus = "Error"
                    /\ result.status = "Error"
                    /\ result.total_reports = 0
                    /\ result.analysis_results = <<>>
                    /\ result.selected_types = selected_types

\* a run whose list holds only an unknown name returned Error without a request
C27_Witness ==
    /\ pc = "returned"
    /\ selected_types = <<"Custom Analysis">>
    /\ result.status = "Error"
    /\ result.total_reports = 0
    /\ pageStatus = "Error"
    /\ IssuedArgs("generate") = {}

----------------------------------------------------------------------------
(* The handler of the run and the exit code of main *)

\* C28: a step takes the run to its handler only with an exception of a
\* request that just failed; the handler's step makes one write of Error,
\* whatever its outcome keeps the exception it was entered with, and ends
\* the run as raised, after which the run issues no request; main returns 1
\* exactly after a run that raised and 0 after a run that returned, whatever
\* the returned status.
C28_HandlerReraisesAndExitCode ==
    [][/\ (pc # "handler" /\ pc' = "handler") =>
              /\ exc' # "none"
              /\ calls' # calls
              /\ ~calls'[Len(calls')].ok
       /\ pc = "handler" =>
              /\ pc' = "raised"
              /\ exc' = exc
              /\ exc # "none"
              /\ \E ok \in BOOLEAN :
                    calls' = Append(calls, Call("update_status", "Error", ok))
       /\ pc = "raised" => (pc' = "raised" /\ calls' = calls /\ exc' = exc)
       /\ pc' = "raised" => pc \in {"handler", "raised"}
       /\ exit_code' # exit_code =>
              /\ exit_code = <<>>
              /\ pc \in {"returned", "raised"}
              /\ pc' = pc
              /\ exit_code' = (IF pc = "raised" THEN <<1>> ELSE <<0>>)
      ]_vars

\* main returned 0 after a run that returned the status Error
C28_Witness ==
    /\ exit_code = <<0>>
    /\ pc = "returned"
    /\ result.status = "Error"

----------------------------------------------------------------------------
(* The loop of the risk extraction, line by line *)

\* the longest text given to _extract_risks_from_content, in pieces
MaxExtractPieces == 4

\* the pieces of the texts: two lines that open a risk, one line for each of
\* the other labels, two bold headings with a keyword, and a plain line
ExtractPieces ==
    {<<"R", "i", "s", "k", ":", " ", "o", "u", "t", "a", "g", "e", "\n">>,
     <<"R", "i", "s", "k", ":", " ", "c", "h", "u", "r", "n", "\n">>,
     <<"P", "r", "o", "b", "a", "b", "i", "l", "i", "t", "y", ":", " ", "l", "o", "w", "\n">>,
     <<"I", "m", "p", "a", "c", "t", ":", " ", "h", "i", "g", "h", "\n">>,
     <<"P", "r", "i", "o", "r", "i", "t", "y", ":", " ", "c", "r", "i", "t", "i", "c", "a", "l", "\n">>,
     <<"*", "*", "s", "e", "c", "u", "r", "i", "t", "y", "*", "*", "\n", "*", "*", "t", "i", "m", "e", "l", "i", "n", "e", "*", "*", "\n">>,
     <<"a", "p", "i", " ", "\n">>}

ExtractTexts == TextsOf(ExtractPieces, MaxExtractPieces)

\* _extract_risks_from_content is called with a text: risks = [],
\* current_risk = None
ExtractRisks ==
    /\ fmt_pc = "idle"
    /\ \E content \in ExtractTexts : fmt_content' = content
    /\ fmt_line' = 1
    /\ fmt_risk' = <<>>
    /\ fmt_out' = NoOutput
    /\ fmt_pc' = "scan"
    /\ UNCHANGED <<fmt_type, run_vars>>

\* one iteration of the loop over the lines
ExtractLine ==
    /\ fmt_pc = "scan"
    /\ fmt_line <= Len(content_lines)
    /\ LET after == extract_risks_line(content_lines[fmt_line], fmt_out.risks,
                                       fmt_risk, fmt_content)
       IN  /\ fmt_out' = [fmt_out EXCEPT !.risks = after.risks]
           /\ fmt_risk' = after.current_risk
    /\ fmt_line' = fmt_line + 1
    /\ UNCHANGED <<fmt_pc, fmt_type, fmt_content, run_vars>>

\* after the loop: the default risks if none was found, and return risks[:5]
ExtractReturn ==
    /\ fmt_pc = "scan"
    /\ fmt_line > Len(content_lines)
    /\ fmt_out' = [fmt_out EXCEPT !.risks =
                      slice_to(IF fmt_out.risks = <<>>
                               THEN generate_default_project_risks(fmt_content)
                               ELSE fmt_out.risks, 5)]
    /\ fmt_pc' = "extracted"
    /\ UNCHANGED <<fmt_type, fmt_content, fmt_line, fmt_risk, run_vars>>

ExtractNext == ExtractRisks \/ ExtractLine \/ ExtractReturn

ExtractSpec == Init /\ [][ExtractNext]_vars

\* the line of the iteration the loop is in, stripped and in lower case
scanned_line == lower(strip(content_lines[fmt_line]))

\* C29: in an iteration of the loop for a line that holds one of the four
\* labels, a risk is appended to risks only if the line holds 'priority:'
\* while a risk is pending, and the pending risk was opened by an earlier
\* line holding 'risk:'; what is appended is the pending risk with the
\* priority of the line, and no risk is pending afterwards. A line holding
\* 'priority:' and no label tested before it, met while a risk is pending,
\* does append it. A line holding 'probability:', 'impact:' or 'priority:'
\* but not 'risk:', met while no risk is pending, changes neither risks nor
\* current_risk. A line holding 'risk:' never appends: it makes a new risk
\* of its name the pending one (or, when the name is empty or 50 characters
\* or longer, leaves current_risk as it is), and a pending risk it replaces
\* is dropped. At the end of the loop the pending risk is not
\* appended: what is returned is the first five of risks, or the default
\* risks of the text when risks is empty.
C29_PendingRiskEmittedByPriorityLine ==
    [][/\ (fmt_pc = "scan" /\ fmt_pc' = "scan" /\ fmt_line' = fmt_line + 1) =>
              LET isRisk  == contains(scanned_line, <<"r", "i", "s", "k", ":">>)
                  isProb  == contains(scanned_line, <<"p", "r", "o", "b", "a", "b", "i", "l", "i", "t", "y", ":">>)
                  isImp   == contains(scanned_line, <<"i", "m", "p", "a", "c", "t", ":">>)
                  isPrio  == contains(scanned_line, <<"p", "r", "i", "o", "r", "i", "t", "y", ":">>)
                  risks   == fmt_out.risks
                  pending == fmt_risk # <<>>
                  closed  == [fmt_risk[1] EXCEPT !.priority =
                                risk_priority(lower(after_colon(strip(content_lines[fmt_line]))))]
              IN  (isRisk \/ isProb \/ isImp \/ isPrio) =>
                     (/\ pending =>
                            \E j \in 1..(fmt_line - 1) :
                                /\ contains(lower(content_lines[j]), <<"r", "i", "s", "k", ":">>)
                                /\ fmt_risk[1].name = after_colon(strip(content_lines[j]))
                      /\ fmt_out'.risks # risks =>
                            /\ isPrio /\ pending
                            /\ fmt_out'.risks = Append(risks, closed)
                            /\ fmt_risk' = <<>>
                      /\ (isPrio /\ ~isRisk /\ ~isProb /\ ~isImp /\ pending) =>
                            fmt_out'.risks = Append(risks, closed)
                      /\ (~isRisk /\ ~pending) =>
                            (fmt_out'.risks = risks /\ fmt_risk' = <<>>)
                      /\ isRisk =>
                            LET name == after_colon(strip(content_lines[fmt_line]))
                            IN  /\ fmt_out'.risks = risks
                                /\ fmt_risk' = IF name # <<>> /\ Len(name) < 50
                                               THEN <<Risk(name, "Medium", "Medium", "MEDIUM")>>
                                               ELSE fmt_risk)
       /\ (fmt_pc = "scan" /\ fmt_pc' = "extracted") =>
              fmt_out'.risks = slice_to(IF fmt_out.risks = <<>>
                                        THEN generate_default_project_risks(fmt_content)
                                        ELSE fmt_out.risks, 5)
      ]_vars

\* the text 'Risk: outage', 'Risk: churn', 'Priority: critical', 'Risk: outage'
\* gave one risk: churn, with the priority of the Priority line
C29_Witness ==
    /\ fmt_pc = "extracted"
    /\ Len(content_lines) = 5
    /\ fmt_risk # <<>>
    /\ Len(fmt_out.risks) = 1
    /\ fmt_out.risks[1].name = <<"c", "h", "u", "r", "n">>
    /\ fmt_out.risks[1].priority = "<large red circle> HIGH"

----------------------------------------------------------------------------
(* What the risk extraction returns and the table made of it *)

\* line l of the text is one that appends the risk: a line holding
\* 'priority:' that gives the risk its priority, after a line holding 'risk:'
\* that gave it its name, or a bold heading that is the name
appended_at(lines, l, risk) ==
    LET line == strip(lines[l])
    IN  \/ /\ contains(lower(line), <<"p", "r", "i", "o", "r", "i", "t", "y", ":">>)
           /\ risk.priority = risk_priority(lower(after_colon(line)))
           /\ \E j \in 1..(l - 1) :
                 /\ contains(lower(lines[j]), <<"r", "i", "s", "k", ":">>)
                 /\ risk.name = after_colon(strip(lines[j]))
        \/ /\ contains(line, <<"*", "*">>)
           /\ risk.name = strip(remove_all(line, <<"*", "*">>))

\* the risks are appended by lines of the text at or after line from, one
\* after the other
RECURSIVE in_text_order(_, _, _)
in_text_order(risks, lines, from) ==
    \/ risks = <<>>
    \/ \E l \in from..Len(lines) :
          /\ appended_at(lines, l, Head(risks))
          /\ in_text_order(Tail(risks), lines, l + 1)

====
